---- MODULE Spec2Model ----
(***************************************************************************)
(* ASO dashboard: CSV ingestion (flexible and strict parsers), the rank    *)
(* projection formulas, the metadata generation service, the insight       *)
(* aggregator (analyzeAppData), the Dashboard page state and the           *)
(* prediction functions with the KeywordAnalysis component.                *)
(*                                                                         *)
(* Strings are TLA+ strings; a character is a string of length 1.          *)
(* JavaScript numbers are integers here: the cell alphabet of the model    *)
(* has no '.', 'e' or 'x', so parseFloat and parseInt only ever meet       *)
(* optionally signed digit runs.  The real-valued projection formulas are  *)
(* computed in thousandths (fixed point).                                  *)
(***************************************************************************)
EXTENDS Integers, Sequences, FiniteSets, TLC

VARIABLES
    file,        \* the file handed to the parser last run
    parser,      \* "none" | "flexible" | "strict": which parser ran last
    result,      \* outcome of that parse: dataset, record list or error
    rankInput,   \* a keyword record and a horizon handed to the projection
    rankOutput,  \* the rank projected for it, and by which function
    analysis,    \* the metadata recommendations of the uploaded dataset
    selectedKeywords, \* the keywords ticked in the keyword table, in order
    channel,     \* the request or response in flight to or from the service
    client,      \* state of the ASOMetadataGenerator component
    dataset,     \* the ParsedAppData handed to the insight aggregator
    runs,        \* what each call of analyzeAppData on it returned, in order
    dynamic,     \* what calculateProjections computed from it, if it ran
    appDataState,     \* Dashboard state: the parsed dataset, or null
    analysisResultState,        \* Dashboard state: its analysis, or null
    selectedMetadataState,      \* Dashboard state: the chosen title, subtitle, field
    dynamicProjections,    \* Dashboard state: the last calculated projections
    projectionsCalculated, \* Dashboard state: the projection panel is shown
    uploadError, \* Dashboard state: the message of the last failed upload
    keywordRecords, \* the keyword records handed to the prediction functions
    predictRuns, \* what each call of a prediction function returned, in order
    chosenFiles, \* FileUpload: the files handed to processFile, in order
    inFlight,    \* FileUpload: which of them parseCSVData is still parsing
    loadedData,  \* FileUpload: the arguments of onDataLoaded, in order
    isLoadingState,  \* FileUpload: the isLoading prop as setIsLoading left it
    fileUploadError, \* FileUpload: the error state
    keywordRanksState,     \* KeywordAnalysis state: keywordRanks
    predictionsState,      \* KeywordAnalysis state: predictions
    recommendationsState,  \* KeywordAnalysis state: recommendations
    selectedKeywordState,  \* KeywordAnalysis state: selectedKeyword
    pendingTimer  \* KeywordAnalysis: the timer of the last effect, if pending

parseVars == <<file, parser, result>>
rankVars == <<rankInput, rankOutput>>
metaVars == <<analysis, selectedKeywords, channel, client>>
insightVars == <<dataset, runs, dynamic>>
dashVars == <<appDataState, analysisResultState, selectedMetadataState, dynamicProjections,
              projectionsCalculated, uploadError>>
predictVars == <<keywordRecords, predictRuns>>
uploadVars == <<chosenFiles, inFlight, loadedData, isLoadingState, fileUploadError>>
timerVars == <<keywordRanksState, predictionsState, recommendationsState,
               selectedKeywordState, pendingTimer>>
asyncVars == <<uploadVars, timerVars>>
pageVars == <<insightVars, dashVars, predictVars, asyncVars, asyncVars>>
vars == <<file, parser, result, rankInput, rankOutput,
          analysis, selectedKeywords, channel, client, pageVars>>

(***************************************************************************)
(* Bounds of the model.                                                    *)
(***************************************************************************)
MaxRows == 3        \* data rows of a flexible-parser file
MaxStrictRows == 2  \* data lines of a strict-parser file
MaxRank == 40       \* largest current rank handed to the projection
MaxMonths == 12     \* longest horizon handed to the projection
MaxShortDataset == 2 \* keywords of a dataset drawn freely from the short pool
MaxPredictRuns == 2 \* calls of the prediction functions on one set of records

(***************************************************************************)
(* Generic helpers.                                                        *)
(***************************************************************************)
Min(a, b) == IF a <= b THEN a ELSE b
Max(a, b) == IF a >= b THEN a ELSE b

Range(s) == {s[i] : i \in DOMAIN s}

\* obj[key] = val, as a JavaScript property assignment
Put(obj, key, val) ==
    [x \in (DOMAIN obj) \cup {key} |-> IF x = key THEN val ELSE obj[x]]

EmptyObj == [x \in {} |-> [s |-> ""]]

\* tagged JavaScript values: a string or a number
Str(v) == [s |-> v]
Num(v) == [n |-> v]
IsNum(v) == DOMAIN v = {"n"}

\* all sequences over S of length lo..hi
SeqsOf(S, lo, hi) == UNION {[1..k -> S] : k \in lo..hi}

\* sequences without repetition
Injective(q) == \A i, j \in DOMAIN q : q[i] = q[j] => i = j

(***************************************************************************)
(* String primitives.                                                      *)
(***************************************************************************)
CharAt(s, i) == SubSeq(s, i, i)

LowerOf ==
    [c \in {"A","B","C","D","E","F","G","H","I","J","K","L","M",
            "N","O","P","Q","R","S","T","U","V","W","X","Y","Z"} |->
        CASE c = "A" -> "a" [] c = "B" -> "b" [] c = "C" -> "c" [] c = "D" -> "d"
          [] c = "E" -> "e" [] c = "F" -> "f" [] c = "G" -> "g" [] c = "H" -> "h"
          [] c = "I" -> "i" [] c = "J" -> "j" [] c = "K" -> "k" [] c = "L" -> "l"
          [] c = "M" -> "m" [] c = "N" -> "n" [] c = "O" -> "o" [] c = "P" -> "p"
          [] c = "Q" -> "q" [] c = "R" -> "r" [] c = "S" -> "s" [] c = "T" -> "t"
          [] c = "U" -> "u" [] c = "V" -> "v" [] c = "W" -> "w" [] c = "X" -> "x"
          [] c = "Y" -> "y" [] c = "Z" -> "z"]

RECURSIVE ToLowerCase(_)
ToLowerCase(s) ==
    IF Len(s) = 0 THEN ""
    ELSE LET c == CharAt(s, 1)
         IN  (IF c \in DOMAIN LowerOf THEN LowerOf[c] ELSE c)
                 \o ToLowerCase(SubSeq(s, 2, Len(s)))

IsSpace(c) == c \in {" ", "\t", "\r", "\n"}

RECURSIVE TrimStart(_)
TrimStart(s) ==
    IF Len(s) > 0 /\ IsSpace(CharAt(s, 1))
    THEN TrimStart(SubSeq(s, 2, Len(s))) ELSE s

RECURSIVE TrimEnd(_)
TrimEnd(s) ==
    IF Len(s) > 0 /\ IsSpace(CharAt(s, Len(s)))
    THEN TrimEnd(SubSeq(s, 1, Len(s) - 1)) ELSE s

Trim(s) == TrimEnd(TrimStart(s))

\* s.replace(/[chars]/g, '')
RECURSIVE RemoveChars(_, _)
RemoveChars(s, chars) ==
    IF Len(s) = 0 THEN ""
    ELSE (IF CharAt(s, 1) \in chars THEN "" ELSE CharAt(s, 1))
             \o RemoveChars(SubSeq(s, 2, Len(s)), chars)

Digits == {"0","1","2","3","4","5","6","7","8","9"}

DigitVal(c) ==
    CASE c = "0" -> 0 [] c = "1" -> 1 [] c = "2" -> 2 [] c = "3" -> 3
      [] c = "4" -> 4 [] c = "5" -> 5 [] c = "6" -> 6 [] c = "7" -> 7
      [] c = "8" -> 8 [] c = "9" -> 9

\* length of the leading run of digits of s
RECURSIVE DigitRun(_)
DigitRun(s) ==
    IF Len(s) > 0 /\ CharAt(s, 1) \in Digits
    THEN 1 + DigitRun(SubSeq(s, 2, Len(s))) ELSE 0

\* value of a string of digits
RECURSIVE DigitsValue(_)
DigitsValue(s) ==
    IF Len(s) = 0 THEN 0
    ELSE 10 * DigitsValue(SubSeq(s, 1, Len(s) - 1)) + DigitVal(CharAt(s, Len(s)))

NaN == [nan |-> TRUE, val |-> 0]

\* parseFloat / parseInt on the model's alphabet: skip leading white space,
\* an optional sign, then the longest run of digits; NaN if there is none.
ParseNumberPrefix(s) ==
    LET t    == TrimStart(s)
        neg  == Len(t) > 0 /\ CharAt(t, 1) = "-"
        sgn  == Len(t) > 0 /\ CharAt(t, 1) \in {"-", "+"}
        body == IF sgn THEN SubSeq(t, 2, Len(t)) ELSE t
        k    == DigitRun(body)
        v    == DigitsValue(SubSeq(body, 1, k))
    IN  IF k = 0 THEN NaN
        ELSE [nan |-> FALSE, val |-> IF neg THEN 0 - v ELSE v]

parseFloat(s) == ParseNumberPrefix(s)

(***************************************************************************)
(* Flexible parser (flexible-csv-parser.ts).                               *)
(***************************************************************************)
\* the static synonym table, in source order: <<csv header, standard name>>
fieldMapEntries ==
    << <<"app name", "appName">>, <<"app_name", "appName">>,
       <<"application name", "appName">>, <<"app id", "appId">>,
       <<"app_id", "appId">>, <<"bundle id", "appId">>,
       <<"package name", "appId">>, <<"store", "store">>,
       <<"platform", "store">>, <<"category", "category">>,
       <<"installs", "currentInstalls">>, <<"downloads", "currentInstalls">>,
       <<"current installs", "currentInstalls">>,
       <<"keyword", "keyword">>, <<"term", "keyword">>,
       <<"search term", "keyword">>, <<"query", "keyword">>,
       <<"volume", "volume">>, <<"search volume", "volume">>,
       <<"monthly searches", "volume">>, <<"traffic", "volume">>,
       <<"difficulty", "difficulty">>, <<"keyword difficulty", "difficulty">>,
       <<"competition", "difficulty">>, <<"rank", "currentRank">>,
       <<"current rank", "currentRank">>, <<"position", "currentRank">>,
       <<"rankings", "currentRank">>, <<"relevancy", "relevancy">>,
       <<"relevance", "relevancy">>, <<"relevance score", "relevancy">>,
       <<"reach", "maximumReach">>, <<"maximum reach", "maximumReach">>,
       <<"potential reach", "maximumReach">>, <<"cpc", "cpc">>,
       <<"cost per click", "cpc">> >>

fieldMapKeys == {fieldMapEntries[i][1] : i \in DOMAIN fieldMapEntries}

fieldMap ==
    [k \in fieldMapKeys |->
        (CHOOSE e \in Range(fieldMapEntries) : e[1] = k)[2]]

\* fieldMap[field.toLowerCase()] || field.toLowerCase()
StandardField(field) ==
    LET lowerField == ToLowerCase(field)
    IN  IF lowerField \in fieldMapKeys THEN fieldMap[lowerField] ELSE lowerField

requiredFields == <<"keyword">>
appFields == <<"appName", "appId", "store", "category", "currentInstalls">>
numericFields ==
    <<"volume", "difficulty", "currentRank", "relevancy", "traffic", "cpc",
      "maximumReach">>

\* keep the elements of a sequence that satisfy a test, in order
FilterSeq(q, Test(_)) ==
    LET F[i \in 0..Len(q)] ==
            IF i = 0 THEN <<>>
            ELSE IF Test(q[i]) THEN Append(F[i - 1], q[i]) ELSE F[i - 1]
    IN  F[Len(q)]

\* a parsed row: an object whose keys are the header names, in header order
RowObject(header, cells) ==
    [keys |-> header,
     get  |-> [h \in Range(header) |->
                 cells[CHOOSE i \in DOMAIN header : header[i] = h]]]

HasKey(row, k) == k \in DOMAIN row.get

\* Papa.parse(file, {header: true, skipEmptyLines: true}): the rows under
\* the header as objects; a line that is the empty string is skipped.
PapaParse(f) ==
    LET IsLine(cells) == ~(Len(cells) = 1 /\ cells[1] = "")
        kept == FilterSeq(f.rows, IsLine)
    IN  [i \in DOMAIN kept |-> RowObject(f.header, kept[i])]

parseNumericValue(value) ==
    LET cleanValue  == RemoveChars(value, {",", "%", "$"})
        parsedValue == parseFloat(cleanValue)
    IN  IF parsedValue.nan THEN 0 ELSE parsedValue.val

\* first index of q whose element satisfies Test, 0 if none
FirstIndex(q, Test(_)) ==
    IF \E i \in DOMAIN q : Test(q[i])
    THEN CHOOSE i \in DOMAIN q : Test(q[i]) /\ \A j \in 1..(i - 1) : ~Test(q[j])
    ELSE 0

Null == "null"

findMatchingField(row, targetField) ==
    LET ByMap(e) == e[2] = targetField /\ HasKey(row, e[1])
        m == FirstIndex(fieldMapEntries, ByMap)
        ByCase(k) == ToLowerCase(k) = ToLowerCase(targetField)
        c == FirstIndex(row.keys, ByCase)
    IN  IF HasKey(row, targetField) THEN targetField
        ELSE IF m # 0 THEN fieldMapEntries[m][1]
        ELSE IF c # 0 THEN row.keys[c]
        ELSE Null

\* findKeywordField that only knows the exact header 'keyword'
findKeywordFieldExact(row) ==
    LET IsKw(k) == k = "keyword"
        i == FirstIndex(row.keys, IsKw)
    IN  IF i = 0 THEN Null ELSE row.keys[i]

findKeywordField(row) ==
    LET IsKw(k) ==
            LET lowercaseField == ToLowerCase(k)
            IN  \/ lowercaseField \in {"keyword", "term", "search term", "query"}
                \/ (lowercaseField \in fieldMapKeys /\ fieldMap[lowercaseField] = "keyword")
        i == FirstIndex(row.keys, IsKw)
    IN  IF i = 0 THEN Null ELSE row.keys[i]

\* RowFields where a cell that does not parse leaves the field absent
RECURSIVE RowFieldsSkipMalformed(_, _, _)
RowFieldsSkipMalformed(row, keys, acc) ==
    IF keys = <<>> THEN acc
    ELSE LET field == Head(keys)
             standardField == StandardField(field)
             value == row.get[field]
             next ==
                IF standardField \in Range(appFields) \/ standardField = "keyword"
                THEN acc
                ELSE IF value = "" THEN acc
                ELSE IF standardField \in Range(numericFields)
                THEN (IF parseFloat(RemoveChars(value, {",", "%", "$"})).nan
                      THEN acc
                      ELSE Put(acc, standardField, Num(parseNumericValue(value))))
                ELSE Put(acc, standardField, Str(value))
         IN  RowFieldsSkipMalformed(row, Tail(keys), next)

\* the keywordData object built from one row (the body of Object.keys(row).forEach)
RECURSIVE RowFields(_, _, _)
RowFields(row, keys, acc) ==
    IF keys = <<>> THEN acc
    ELSE LET field == Head(keys)
             standardField == StandardField(field)
             value == row.get[field]
             next ==
                IF standardField \in Range(appFields) \/ standardField = "keyword"
                THEN acc
                ELSE IF value = "" THEN acc
                ELSE IF standardField \in Range(numericFields)
                THEN Put(acc, standardField, Num(parseNumericValue(value)))
                ELSE Put(acc, standardField, Str(value))
         IN  RowFields(row, Tail(keys), next)

KeywordDataOf(row, keywordField) ==
    RowFields(row, row.keys, Put(EmptyObj, "keyword", Str(row.get[keywordField])))

\* CollectKeywords without the seenKeywords test: every row is kept
RECURSIVE CollectKeywordsKeepAll(_, _, _, _)
CollectKeywordsKeepAll(data, keywordField, seenKeywords, keywords) ==
    IF data = <<>> THEN keywords
    ELSE LET row == Head(data)
             keyword == row.get[keywordField]
         IN  IF keyword = ""
             THEN CollectKeywordsKeepAll(Tail(data), keywordField, seenKeywords, keywords)
             ELSE CollectKeywordsKeepAll(Tail(data), keywordField,
                      seenKeywords \cup {keyword},
                      Append(keywords, KeywordDataOf(row, keywordField)))

\* CollectKeywords where a later row of a seen keyword overwrites its record
RECURSIVE CollectKeywordsLastWins(_, _, _, _)
CollectKeywordsLastWins(data, keywordField, seenKeywords, keywords) ==
    IF data = <<>> THEN keywords
    ELSE LET row == Head(data)
             keyword == row.get[keywordField]
         IN  IF keyword = ""
             THEN CollectKeywordsLastWins(Tail(data), keywordField, seenKeywords, keywords)
             ELSE IF keyword \in seenKeywords
             THEN CollectKeywordsLastWins(Tail(data), keywordField, seenKeywords,
                      [i \in DOMAIN keywords |->
                          IF keywords[i]["keyword"].s = keyword
                          THEN KeywordDataOf(row, keywordField) ELSE keywords[i]])
             ELSE CollectKeywordsLastWins(Tail(data), keywordField,
                      seenKeywords \cup {keyword},
                      Append(keywords, KeywordDataOf(row, keywordField)))

\* data.forEach with the seenKeywords set
RECURSIVE CollectKeywords(_, _, _, _)
CollectKeywords(data, keywordField, seenKeywords, keywords) ==
    IF data = <<>> THEN keywords
    ELSE LET row == Head(data)
             keyword == row.get[keywordField]
         IN  IF keyword = "" \/ keyword \in seenKeywords
             THEN CollectKeywords(Tail(data), keywordField, seenKeywords, keywords)
             ELSE CollectKeywords(Tail(data), keywordField,
                      seenKeywords \cup {keyword},
                      Append(keywords, KeywordDataOf(row, keywordField)))

\* appFields.forEach over the first row
RECURSIVE AppDetailsOf(_, _, _)
AppDetailsOf(firstRow, fields, acc) ==
    IF fields = <<>> THEN acc
    ELSE LET field == Head(fields)
             matchingField == findMatchingField(firstRow, field)
             value == IF matchingField = Null THEN "" ELSE firstRow.get[matchingField]
             next ==
                IF matchingField = Null \/ value = "" THEN acc
                ELSE IF field = "currentInstalls"
                THEN Put(acc, field, Num(parseNumericValue(value)))
                ELSE Put(acc, field, Str(value))
         IN  AppDetailsOf(firstRow, Tail(fields), next)

Failure(message) == [kind |-> "error", message |-> message]

EmptyFileMsg == "CSV file is empty"
MissingKeywordMsg == "CSV file must contain a keyword column"
NoKeywordFieldMsg == "Could not find a keyword column in the CSV"

processCSVResults(data, id) ==
    IF Len(data) = 0 THEN Failure(EmptyFileMsg)
    ELSE
    LET firstRow == data[1]
        NonBlank(key) == Trim(key) # ""
        availableFields == FilterSeq(firstRow.keys, NonBlank)
        standardizedAvailableFields ==
            [i \in DOMAIN availableFields |-> StandardField(availableFields[i])]
        Missing(field) ==
            /\ field \notin Range(standardizedAvailableFields)
            /\ ~\E i \in DOMAIN availableFields :
                   LET l == ToLowerCase(availableFields[i])
                   IN  l \in fieldMapKeys /\ fieldMap[l] = field
        missingFields == FilterSeq(requiredFields, Missing)
        keywordField == findKeywordField(firstRow)
    IN  IF "keyword" \in Range(missingFields) THEN Failure(MissingKeywordMsg)
        ELSE IF keywordField = Null THEN Failure(NoKeywordFieldMsg)
        ELSE [kind |-> "ok",
              id |-> id,
              appDetails |-> AppDetailsOf(firstRow, appFields, EmptyObj),
              keywords |-> CollectKeywords(data, keywordField, {}, <<>>),
              missingFields |-> missingFields,
              availableFields |-> standardizedAvailableFields]

\* generateId(): two draws of Math.random, any of the ids it can yield
Ids == {"k3x9", "p07q"}

(***************************************************************************)
(* Strict parser (csv-parser.ts, parseCSV).                                *)
(***************************************************************************)
EXPECTED_HEADERS ==
    <<"App Name", "App ID", "Store", "Device", "Country Code", "Language Code",
      "Main App ID", "Main App Name", "Keyword", "Keyword List", "Starred",
      "Volume", "Difficulty", "Maximum Reach", "Branded", "Branded App ID",
      "Branded App Name", "KEI", "Chance", "Relevancy Score">>

\* s.split(sep) for a one-character separator: the pieces between the
\* occurrences of sep
Split(s, sep) ==
    LET pos == {i \in 1..Len(s) : CharAt(s, i) = sep}
        n   == Cardinality(pos)
        P(k) == CHOOSE p \in pos : Cardinality({q \in pos : q < p}) = k - 1
    IN  [k \in 1..(n + 1) |->
            SubSeq(s, IF k = 1 THEN 1 ELSE P(k - 1) + 1,
                      IF k = n + 1 THEN Len(s) ELSE P(k) - 1)] \o <<>>

\* (s.match(/c/g) || []).length
CountChar(s, c) == Cardinality({i \in 1..Len(s) : CharAt(s, i) = c})

\* s.endsWith(suffix)
EndsWith(s, suffix) ==
    Len(s) >= Len(suffix) /\ SubSeq(s, Len(s) - Len(suffix) + 1, Len(s)) = suffix

Quotes == {"\"", "'"}

\* s.replace(/^["']|["']$/g, '')
StripQuotes(s) ==
    LET lead == Len(s) > 0 /\ CharAt(s, 1) \in Quotes
        t    == IF lead THEN SubSeq(s, 2, Len(s)) ELSE s
    IN  IF Len(t) > 0 /\ CharAt(t, Len(t)) \in Quotes
        THEN SubSeq(t, 1, Len(t) - 1) ELSE t

cleanHeader(header) == Trim(StripQuotes(header))
cleanValue(value) == Trim(StripQuotes(value))

MapSeq(q, Op(_)) == [i \in DOMAIN q |-> Op(q[i])] \o <<>>

parseBoolean(value) ==
    ToLowerCase(value) = "true" \/ ToLowerCase(value) = "yes" \/ value = "1"

\* an optional argument: given or undefined
Given(v) == [def |-> TRUE, v |-> v]
Undefined == [def |-> FALSE, v |-> 0]

\* parseNumber without the test against max
parseNumberNoMax(value, min, max) ==
    LET num == ParseNumberPrefix(value)
    IN  IF num.nan THEN 0
        ELSE IF min.def /\ num.val < min.v THEN min.v
        ELSE num.val

\* parseNumber(value, min?, max?) with parseInt
parseNumber(value, min, max) ==
    LET num == ParseNumberPrefix(value)
    IN  IF num.nan THEN 0
        ELSE IF min.def /\ num.val < min.v THEN min.v
        ELSE IF max.def /\ num.val > max.v THEN max.v
        ELSE num.val

\* the last index of a set of indices, 0 for none
LastOf(hits) == IF hits = {} THEN 0 ELSE CHOOSE i \in hits : \A j \in hits : j <= i

\* the keys of headerMap in header order: new Map(headers.map((header, index)
\* => [header.toLowerCase(), index]))
headerMap(headers) == MapSeq(headers, ToLowerCase)

\* headerMap.get(columnName.toLowerCase()): a later duplicate header wins
HeaderIndex(keys, columnName) ==
    LET key == ToLowerCase(columnName)
    IN  LastOf({i \in DOMAIN keys : keys[i] = key})

\* index !== undefined ? values[index] : ''
ValueAt(values, index) == IF index # 0 THEN values[index] ELSE ""

getValue(keys, values, columnName) ==
    ValueAt(values, HeaderIndex(keys, columnName))

\* the keywordData literal, from the cell found under each expected header
KeywordDataFromCells(cell) ==
    LET flag == [c \in {"Starred", "Branded"} |-> parseBoolean(cell[c])]
        number ==
            [c \in {"Volume", "Difficulty", "Maximum Reach", "KEI", "Chance",
                    "Relevancy Score"} |->
                parseNumber(cell[c], Given(0),
                            IF c \in {"Volume", "Maximum Reach"}
                            THEN Undefined ELSE Given(100))]
        Or(a, b) == IF a # "" THEN a ELSE b
        \* volume, brandedAppId and brandedAppName are undefined for a blank cell
        defined ==
            {"appName", "appId", "keyword", "store", "device", "countryCode",
             "languageCode", "mainAppId", "mainAppName", "keywordList",
             "starred", "difficulty", "maximumReach", "branded", "kei",
             "chance", "relevancyScore"}
            \cup (IF cell["Volume"] # "" THEN {"volume"} ELSE {})
            \cup (IF cell["Branded App ID"] # "" THEN {"brandedAppId"} ELSE {})
            \cup (IF cell["Branded App Name"] # "" THEN {"brandedAppName"} ELSE {})
    IN  [x \in defined |->
            CASE x = "appName" -> Str(cell["App Name"])
              [] x = "appId" -> Str(cell["App ID"])
              [] x = "keyword" -> Str(cell["Keyword"])
              [] x = "store" ->
                    Str(IF ToLowerCase(cell["Store"]) = "ios" THEN "iOS" ELSE "Android")
              [] x = "device" -> Str(Or(cell["Device"], "all"))
              [] x = "countryCode" -> Str(Or(cell["Country Code"], "US"))
              [] x = "languageCode" -> Str(Or(cell["Language Code"], "en"))
              [] x = "mainAppId" -> Str(Or(cell["Main App ID"], cell["App ID"]))
              [] x = "mainAppName" -> Str(Or(cell["Main App Name"], cell["App Name"]))
              [] x = "keywordList" -> Str(Or(cell["Keyword List"], cell["Keyword"]))
              [] x = "starred" -> [b |-> flag["Starred"]]
              [] x = "volume" -> Num(number["Volume"])
              [] x = "difficulty" ->
                    Num(IF cell["Difficulty"] # "" THEN number["Difficulty"] ELSE 0)
              [] x = "maximumReach" -> Num(number["Maximum Reach"])
              [] x = "branded" -> [b |-> flag["Branded"]]
              [] x = "brandedAppId" -> Str(cell["Branded App ID"])
              [] x = "brandedAppName" -> Str(cell["Branded App Name"])
              [] x = "kei" -> Num(number["KEI"])
              [] x = "chance" -> Num(number["Chance"])
              [] x = "relevancyScore" -> Num(number["Relevancy Score"])]

\* the keywordData literal of one data row
StrictKeywordData(keys, values) ==
    KeywordDataFromCells(
        [c \in Range(EXPECTED_HEADERS) |-> getValue(keys, values, c)])

\* the required fields of a row that have no value
MissingRequired(keywordData) ==
    LET Blank(c) ==
            CASE c = "App Name" -> keywordData["appName"].s = ""
              [] c = "App ID" -> keywordData["appId"].s = ""
              [] c = "Keyword" -> keywordData["keyword"].s = ""
    IN  FilterSeq(<<"App Name", "App ID", "Keyword">>, Blank)

\* the end of one pass of the rows loop: the row's record, and the error
\* recorded when required values are missing
CheckedOutcome(keywordData, missing, i) ==
    [record |-> keywordData,
     error |-> IF Len(missing) > 0
               THEN <<[row |-> i + 1, issue |-> "missing", fields |-> missing]>>
               ELSE <<>>]

RecordOutcome(keywordData, i) ==
    CheckedOutcome(keywordData, MissingRequired(keywordData), i)

\* one pass of the rows loop on the cleaned cells of nonEmptyLines[i]
ValuesOutcome(headers, values, i) ==
    IF Len(values) # Len(headers)
    THEN [error |-> <<[row |-> i + 1, issue |-> "columns",
                       expected |-> Len(headers), found |-> Len(values)]>>]
    ELSE RecordOutcome(StrictKeywordData(headerMap(headers), values), i)

\* one pass of the for loop over nonEmptyLines[i], i = 1 .. length-1 (0-based)
RowOutcome(headers, line, separator, i) ==
    ValuesOutcome(headers, MapSeq(Split(line, separator), cleanValue), i)

\* the error recorded for a row, or none
RowError(headers, line, separator, i) == RowOutcome(headers, line, separator, i).error

\* the record pushed for a row without error
RowRecord(headers, line, separator) == RowOutcome(headers, line, separator, 0).record

\* data and errors as the loop leaves them, from the outcome of each line
CollectRows(outcomes, last) ==
    LET F[i \in 1..last] ==
            IF i = 1 THEN <<<<>>, <<>>>>
            ELSE LET before == F[i - 1]
                     outcome == outcomes[i]
                 IN  IF outcome.error # <<>>
                     THEN <<before[1], before[2] \o outcome.error>>
                     ELSE <<Append(before[1], outcome.record), before[2]>>
    IN  F[last]

\* the rows loop: <<data, errors>>
ParseRows(headers, lines, separator) ==
    CollectRows([i \in 2..Len(lines) |->
                    RowOutcome(headers, lines[i], separator, i - 1)],
                Len(lines))

NotCsvMsg == "Please upload a CSV file"
StrictEmptyMsg == "The file is empty. Please provide a file with data."
StrictNoRowsMsg == "The file must contain a header row and at least one data row."
HeaderIssuesMsg == "There are issues with the column headers:"
RowIssuesMsg == "Found the following issues in your file:"
NoValidRowsMsg == "No valid data rows were found in the file."

\* LineCountError that reports a header-only file as an empty file
LineCountErrorSame(nonEmptyLines) ==
    IF Len(nonEmptyLines) = 0 THEN StrictEmptyMsg
    ELSE IF Len(nonEmptyLines) < 2 THEN StrictEmptyMsg
    ELSE ""

\* the two checks on nonEmptyLines.length: the message thrown, "" if none
LineCountError(nonEmptyLines) ==
    IF Len(nonEmptyLines) = 0 THEN StrictEmptyMsg
    ELSE IF Len(nonEmptyLines) < 2 THEN StrictNoRowsMsg
    ELSE ""

\* text.split('\n') without the lines that are blank after trimming
NonEmptyLinesOf(text) ==
    LET NonEmpty(line) == Len(Trim(line)) > 0
    IN  FilterSeq(Split(text, "\n"), NonEmpty)

\* the separator detected from the first line: comma if it has more commas
\* than tabs, else tab
DetectSeparator(firstLine) ==
    IF CountChar(firstLine, ",") > CountChar(firstLine, "\t") THEN "," ELSE "\t"

HeadersOf(firstLine, separator) == MapSeq(Split(firstLine, separator), cleanHeader)

\* the end of parseCSV: fail on any row error, else return the records
RowsResult(data, errors) ==
    IF Len(errors) > 0
    THEN [kind |-> "error", message |-> RowIssuesMsg, errors |-> errors]
    ELSE IF Len(data) = 0 THEN Failure(NoValidRowsMsg)
    ELSE [kind |-> "ok", records |-> data]

ParsedResult(parsed) == RowsResult(parsed[1], parsed[2])

\* the header check: fail on missing or unexpected columns
HeaderResult(missingColumns, extraColumns, separator) ==
    [kind |-> "error", message |-> HeaderIssuesMsg,
     missingColumns |-> missingColumns,
     extraColumns |-> extraColumns, separator |-> separator]

\* EXPECTED_HEADERS.filter(expected => !headers.some(header =>
\* header.toLowerCase() === expected.toLowerCase()))
MissingColumns(headers) ==
    LET found == MapSeq(headers, ToLowerCase)
        NotFound(expected) ==
            LET wanted == ToLowerCase(expected)
            IN  ~\E i \in DOMAIN found : found[i] = wanted
    IN  FilterSeq(EXPECTED_HEADERS, NotFound)

\* headers.filter(header => !EXPECTED_HEADERS.some(expected =>
\* expected.toLowerCase() === header.toLowerCase()))
ExtraColumns(headers) ==
    LET known == MapSeq(EXPECTED_HEADERS, ToLowerCase)
        Unexpected(header) ==
            LET given == ToLowerCase(header)
            IN  ~\E i \in DOMAIN known : known[i] = given
    IN  FilterSeq(headers, Unexpected)

\* the header check, then the rows loop
HeaderChecked(nonEmptyLines, separator, headers, missingColumns, extraColumns) ==
    IF Len(missingColumns) > 0 \/ Len(extraColumns) > 0
    THEN HeaderResult(missingColumns, extraColumns, separator)
    ELSE ParsedResult(ParseRows(headers, nonEmptyLines, separator))

\* parseCSV once the separator and the headers are known
ParseUnderHeaders(nonEmptyLines, separator, headers) ==
    HeaderChecked(nonEmptyLines, separator, headers,
                  MissingColumns(headers), ExtraColumns(headers))

ParseSeparated(nonEmptyLines, separator) ==
    ParseUnderHeaders(nonEmptyLines, separator,
                      HeadersOf(nonEmptyLines[1], separator))

\* parseCSV on the non-blank lines of the text
ParseLines(nonEmptyLines) ==
    IF LineCountError(nonEmptyLines) # ""
    THEN Failure(LineCountError(nonEmptyLines))
    ELSE ParseSeparated(nonEmptyLines, DetectSeparator(nonEmptyLines[1]))

parseCSV(f) ==
    IF ~EndsWith(ToLowerCase(f.name), ".csv") THEN Failure(NotCsvMsg)
    ELSE ParseLines(NonEmptyLinesOf(f.text))

(***************************************************************************)
(* Projection engine.  Real numbers are held in thousandths: a rank of 13  *)
(* is 13000, a factor of 0.85 is 850.                                      *)
(***************************************************************************)
\* floor(a * b / 10000) for 0 <= a, b < 100000, without leaving 32 bits
MulTenThousandths(a, b) ==
    LET ah == a \div 100
        al == a % 100
        bh == b \div 100
        bl == b % 100
    IN  ah * bh + (ah * bl + al * bh) \div 100 + (al * bl) \div 10000

\* the binary digits of log10(y / 10000) for y in [10000, 100000), in
\* thousandths: square y, and each time the square passes 10 record a digit
RECURSIVE LogFraction(_, _, _)
LogFraction(y, weight, steps) ==
    IF steps = 0 THEN 0
    ELSE LET sq == MulTenThousandths(y, y)
         IN  IF sq >= 100000
             THEN weight + LogFraction(sq \div 10, weight \div 2, steps - 1)
             ELSE LogFraction(sq, weight \div 2, steps - 1)

\* Math.log10(x) in thousandths, for an integer x >= 1, to about 3 decimals
RECURSIVE Log10Thousandths(_)
Log10Thousandths(x) ==
    IF x >= 100000 THEN 1000 + Log10Thousandths(x \div 10)
    ELSE IF x >= 10000 THEN 4000 + (LogFraction(x, 512000, 12) \div 1024)
    ELSE IF x >= 1000 THEN 3000 + (LogFraction(x * 10, 512000, 12) \div 1024)
    ELSE IF x >= 100 THEN 2000 + (LogFraction(x * 100, 512000, 12) \div 1024)
    ELSE IF x >= 10 THEN 1000 + (LogFraction(x * 1000, 512000, 12) \div 1024)
    ELSE LogFraction(x * 10000, 512000, 12) \div 1024

\* floor(sqrt(n)) by bisection
RECURSIVE SqrtBetween(_, _, _)
SqrtBetween(n, lo, hi) ==
    IF hi - lo <= 1 THEN lo
    ELSE LET mid == (lo + hi) \div 2
         IN  IF mid * mid <= n THEN SqrtBetween(n, mid, hi)
             ELSE SqrtBetween(n, lo, mid)

\* Math.sqrt(months) in thousandths
SqrtThousandths(months) == SqrtBetween(months * 1000000, 0, 46340)

\* rankFactor * difficultyFactor * Math.sqrt(months) * 20, in thousandths
Improvement(currentRank, difficulty, months) ==
    LET difficultyFactor == 1000 - 5 * difficulty
        rankFactor == Min(Log10Thousandths(currentRank + 10) \div 2, 1000)
    IN  ((((rankFactor * difficultyFactor) \div 1000) * SqrtThousandths(months))
            \div 1000) * 20

\* estimateRankImprovement of generateGrowthProjections
estimateRankImprovement(currentRank, difficulty, months) ==
    Min((currentRank - 1) * 1000, Improvement(currentRank, difficulty, months))

\* estimateRankImprovement of the dashboard, with metadataBoostFactor = 1.2
estimateRankImprovementBoosted(currentRank, difficulty, months) ==
    Min((currentRank - 1) * 1000,
        (Improvement(currentRank, difficulty, months) * 12) \div 10)

\* projectedRank with the improvement added instead of subtracted
ProjectedRankAdded(currentRank, rankImprovement) ==
    Max(1000, currentRank * 1000 + rankImprovement)

\* Math.max(1, currentRank - rankImprovement)
ProjectedRank(currentRank, rankImprovement) ==
    Max(1000, currentRank * 1000 - rankImprovement)

\* x || fallback for a numeric field of a record: absent and 0 are falsy
OrDefault(keyword, field, fallback) ==
    IF field \in DOMAIN keyword /\ keyword[field].n # 0
    THEN keyword[field].n ELSE fallback

\* projected rank of one keyword at one horizon in generateGrowthProjections
GrowthProjectedRank(keyword, months) ==
    LET difficulty == OrDefault(keyword, "difficulty", 50)
        currentRank == OrDefault(keyword, "currentRank", 100)
    IN  ProjectedRank(currentRank,
                      estimateRankImprovement(currentRank, difficulty, months))

\* projected rank of one keyword at one horizon in calculateProjections
DashboardProjectedRank(keyword, months) ==
    LET difficulty == OrDefault(keyword, "difficulty", 50)
        currentRank == OrDefault(keyword, "currentRank", 100)
    IN  ProjectedRank(currentRank,
                      estimateRankImprovementBoosted(currentRank, difficulty, months))

(***************************************************************************)
(* Metadata recommendations (csv-parser.ts, generateMetadataRecommendations)*)
(***************************************************************************)
\* s.slice(0, n)
Slice(s, n) == SubSeq(s, 1, Min(n, Len(s)))

\* q.slice(from, to) of an array, with 0-based bounds
SliceSeq(q, from, to) ==
    LET last == Min(to, Len(q))
    IN  IF from >= last THEN <<>> ELSE SubSeq(q, from + 1, last)

\* q.join(sep)
RECURSIVE Join(_, _)
Join(q, sep) ==
    IF Len(q) = 0 THEN ""
    ELSE IF Len(q) = 1 THEN q[1]
    ELSE q[1] \o sep \o Join(Tail(q), sep)

\* [...q].sort((a, b) => Score(b) - Score(a)): descending, stable
SortDesc(q, Score(_)) ==
    LET Before(i, j) ==
            \/ Score(q[i]) > Score(q[j])
            \/ Score(q[i]) = Score(q[j]) /\ i < j
        Position(i) == 1 + Cardinality({j \in DOMAIN q : Before(j, i)})
    IN  [p \in DOMAIN q |-> q[CHOOSE i \in DOMAIN q : Position(i) = p]]

\* the three scores, multiplied by 10 to stay in the integers
scoreTitleKeyword(kw) ==
    6 * OrDefault(kw, "volume", 0)
        + 3 * (100 - OrDefault(kw, "difficulty", 50))
        + (100 - Min(OrDefault(kw, "currentRank", 100), 100))

scoreSubtitleKeyword(kw) ==
    7 * OrDefault(kw, "volume", 0) + 3 * (100 - OrDefault(kw, "difficulty", 50))

scoreKeywordFieldKeyword(kw) ==
    5 * OrDefault(kw, "volume", 0) + 5 * (100 - OrDefault(kw, "difficulty", 50))

\* q[i]?.keyword || '' with a 0-based index
KeywordAt(q, i) == IF i + 1 <= Len(q) THEN q[i + 1]["keyword"].s ELSE ""

KeywordsOf(q) == [i \in DOMAIN q |-> q[i]["keyword"].s]

generateMetadataRecommendations(appData) ==
    LET appName == IF "appName" \in DOMAIN appData.appDetails
                   THEN appData.appDetails["appName"].s ELSE ""
        keywords == appData.keywords
        titleKeywords == SliceSeq(SortDesc(keywords, scoreTitleKeyword), 0, 10)
        subtitleKeywords == SliceSeq(SortDesc(keywords, scoreSubtitleKeyword), 0, 15)
        keywordFieldKeywords ==
            SliceSeq(SortDesc(keywords, scoreKeywordFieldKeyword), 0, 20)
        t0 == KeywordAt(titleKeywords, 0)
        t1 == KeywordAt(titleKeywords, 1)
        s0 == KeywordAt(subtitleKeywords, 0)
        s1 == KeywordAt(subtitleKeywords, 1)
        s2 == KeywordAt(subtitleKeywords, 2)
        titleOptions ==
            IF appName # ""
            THEN <<appName \o ": " \o t0, t0 \o " - " \o appName>>
                 \o (IF Len(titleKeywords) >= 2
                     THEN <<appName \o " - " \o t0 \o " & " \o t1>> ELSE <<>>)
            ELSE <<t0 \o " App">>
                 \o (IF Len(titleKeywords) >= 2 THEN <<t0 \o " & " \o t1>> ELSE <<>>)
                 \o (IF Len(titleKeywords) >= 3
                     THEN <<"Ultimate " \o t0 \o " & " \o t1 \o " Tool">> ELSE <<>>)
        subtitleOptions ==
            <<s0 \o " " \o s1 \o " & " \o s2,
              "Best " \o s0 \o " App for " \o s1,
              s0 \o " Made Easy | " \o s1 \o " & More">>
        keywordFieldOptions ==
            <<Join(KeywordsOf(SliceSeq(keywordFieldKeywords, 0, 8)), ", "),
              Join(KeywordsOf(SliceSeq(keywordFieldKeywords, 8, 16)), ", "),
              Join(KeywordsOf(SliceSeq(keywordFieldKeywords, 0, 4)), ", ")
                  \o ", "
                  \o Join(KeywordsOf(SliceSeq(keywordFieldKeywords, 10, 14)), ", ")>>
    IN  [title |-> titleOptions,
         subtitle |-> subtitleOptions,
         keywordField |-> keywordFieldOptions]

(***************************************************************************)
(* Insight aggregator (csv-parser.ts, analyzeAppData and its helpers).     *)
(***************************************************************************)
\* k.field !== undefined
Has(k, field) == field \in DOMAIN k

\* s.includes(t)
Includes(s, t) ==
    \E i \in 0..(Len(s) - Len(t)) : SubSeq(s, i + 1, i + Len(t)) = t

\* s.split(/\s+/): cur is the piece being read, inGap tells that the last
\* character read was white space
RECURSIVE SplitSpacesFrom(_, _, _)
SplitSpacesFrom(s, cur, inGap) ==
    IF Len(s) = 0 THEN <<cur>>
    ELSE IF IsSpace(CharAt(s, 1))
    THEN IF inGap THEN SplitSpacesFrom(SubSeq(s, 2, Len(s)), "", TRUE)
         ELSE <<cur>> \o SplitSpacesFrom(SubSeq(s, 2, Len(s)), "", TRUE)
    ELSE SplitSpacesFrom(SubSeq(s, 2, Len(s)), cur \o CharAt(s, 1), FALSE)

SplitSpaces(s) == SplitSpacesFrom(s, "", FALSE)

\* s.split(/,\s*/)
SplitCommas(s) ==
    LET pieces == Split(s, ",")
    IN  [i \in DOMAIN pieces |->
            IF i = 1 THEN pieces[i] ELSE TrimStart(pieces[i])] \o <<>>

RECURSIVE Sum(_)
Sum(q) == IF Len(q) = 0 THEN 0 ELSE Head(q) + Sum(Tail(q))

\* Math.round(a / b) for b > 0: the nearest integer, halves upwards
RoundDiv(a, b) == (2 * a + b) \div (2 * b)

\* (k.volume || 0), the key of every volume sort
VolumeOrZero(k) == OrDefault(k, "volume", 0)

\* an appDetails property that is absent or empty is falsy
IsBlank(appDetails, field) ==
    field \notin DOMAIN appDetails \/ appDetails[field].s = ""

NoAppNameWarning == "App name is missing. Recommendations may be less targeted."
NoAppIdWarning ==
    "App ID is missing. We cannot verify if the app exists in the stores."
NoStoreWarning ==
    "Store information is missing. Recommendations are based on general app store guidelines."
NoKeywordsWarning ==
    "No keywords found in the data. Please ensure your CSV contains keyword information."

generateMissingDataWarnings(appData) ==
    LET keywords == appData.keywords
        Lacking(field) == ~\E i \in DOMAIN keywords : Has(keywords[i], field)
        missingKeywordData ==
            (IF Lacking("volume") THEN <<"search volume">> ELSE <<>>)
            \o (IF Lacking("difficulty") THEN <<"difficulty/competition">> ELSE <<>>)
            \o (IF Lacking("currentRank") THEN <<"current rank">> ELSE <<>>)
    IN  (IF IsBlank(appData.appDetails, "appName") THEN <<NoAppNameWarning>> ELSE <<>>)
        \o (IF IsBlank(appData.appDetails, "appId") THEN <<NoAppIdWarning>> ELSE <<>>)
        \o (IF IsBlank(appData.appDetails, "store") THEN <<NoStoreWarning>> ELSE <<>>)
        \o (IF Len(keywords) = 0 THEN <<NoKeywordsWarning>> ELSE <<>>)
        \o (IF Len(missingKeywordData) > 0
            THEN <<"Missing " \o Join(missingKeywordData, ", ")
                       \o " data for keywords. Analysis will be limited.">>
            ELSE <<>>)

\* the categories object: a function from category name to member records
categorizeKeywords(keywords) ==
    LET words == [k \in DOMAIN keywords |->
                     SplitSpaces(ToLowerCase(keywords[k]["keyword"].s))] \o <<>>
        counted == UNION {{words[k][i] : i \in {j \in DOMAIN words[k] :
                                                   Len(words[k][j]) > 3}} :
                             k \in DOMAIN keywords}
        wordFrequency ==
            [word \in counted |->
                Cardinality(UNION {{<<k, i>> : i \in {j \in DOMAIN words[k] :
                                                         words[k][j] = word}} :
                                      k \in DOMAIN keywords})]
        commonThemes == {word \in counted : wordFrequency[word] >= 2}
        Members(theme) ==
            LET Fits(kw) == Includes(ToLowerCase(kw["keyword"].s), ToLowerCase(theme))
            IN  FilterSeq(keywords, Fits)
        categorizedKeywords ==
            UNION {{Members(theme)[i]["keyword"].s : i \in DOMAIN Members(theme)} :
                      theme \in commonThemes}
        Uncategorized(kw) == kw["keyword"].s \notin categorizedKeywords
        Category(c) == IF c = "other" THEN FilterSeq(keywords, Uncategorized)
                       ELSE Members(c)
        kept == {c \in commonThemes \cup {"other"} : Len(Category(c)) >= 2}
    IN  [c \in kept |-> Category(c)]

\* the parts the summary text is assembled from
generateInsightsSummary(appData, lowCompetitionOpportunities, underperformingKeywords) ==
    LET keywords == appData.keywords
        Total(field) == Sum([i \in DOMAIN keywords |->
                                 OrDefault(keywords[i], field, 0)])
        Known(field) ==
            LET n == Cardinality({i \in DOMAIN keywords : Has(keywords[i], field)})
            IN  IF n = 0 THEN 1 ELSE n
    IN  [appName |-> IF IsBlank(appData.appDetails, "appName") THEN "Your app"
                     ELSE appData.appDetails["appName"].s,
         totalKeywords |-> Len(keywords),
         avgVolume |-> RoundDiv(Total("volume"), Known("volume")),
         avgDifficulty |-> RoundDiv(Total("difficulty"), Known("difficulty")),
         topOpportunities |-> KeywordsOf(SliceSeq(lowCompetitionOpportunities, 0, 3)),
         underperforming |-> KeywordsOf(SliceSeq(underperformingKeywords, 0, 3))]

\* the insight lists once the four filtered, sorted and capped lists are known
InsightsOf(appData, trendingKeywords, lowCompetitionOpportunities, highVolumeKeywords, underperformingKeywords) ==
    [trendingKeywords |-> trendingKeywords,
     lowCompetitionOpportunities |-> lowCompetitionOpportunities,
     highVolumeKeywords |-> highVolumeKeywords,
     underperformingKeywords |-> underperformingKeywords,
     keywordCategories |-> categorizeKeywords(appData.keywords),
     summary |-> generateInsightsSummary(appData, lowCompetitionOpportunities,
                                         underperformingKeywords)]

\* the volume sort left out: the array stays in dataset order
SortByVolumeKeepOrder(q) == q

\* q.sort((a, b) => (b.volume || 0) - (a.volume || 0))
SortByVolume(q) == SortDesc(q, VolumeOrZero)

\* keywords.filter(Test).sort(by volume, descending).slice(0, 5)
TopByVolume(keywords, Test(_)) ==
    SliceSeq(SortByVolume(FilterSeq(keywords, Test)), 0, 5)

IsTrending(k) == Has(k, "volume") /\ k["volume"].n > 500

IsLowCompetition(k) ==
    /\ Has(k, "difficulty")
    /\ Has(k, "volume")
    /\ k["difficulty"].n < 40
    /\ k["volume"].n > 300

HasVolume(k) == Has(k, "volume")

IsUnderperforming(k) ==
    /\ Has(k, "volume")
    /\ Has(k, "currentRank")
    /\ k["volume"].n > 300
    /\ k["currentRank"].n > 50

generateKeywordInsights(appData) ==
    InsightsOf(appData,
               TopByVolume(appData.keywords, IsTrending),
               TopByVolume(appData.keywords, IsLowCompetition),
               TopByVolume(appData.keywords, HasVolume),
               TopByVolume(appData.keywords, IsUnderperforming))

timeframes == <<1, 3, 6, 12>>

\* the table with each test  rank <= bound  replaced by  rank < bound
estimateConversionRateBelow(rank) ==
    IF rank < 1000 THEN 120
    ELSE IF rank < 3000 THEN 80
    ELSE IF rank < 5000 THEN 50
    ELSE IF rank < 10000 THEN 30
    ELSE IF rank < 20000 THEN 10
    ELSE IF rank < 50000 THEN 5
    ELSE 1

\* estimateConversionRate, in thousandths, of a rank in thousandths
estimateConversionRate(rank) ==
    IF rank <= 1000 THEN 120
    ELSE IF rank <= 3000 THEN 80
    ELSE IF rank <= 5000 THEN 50
    ELSE IF rank <= 10000 THEN 30
    ELSE IF rank <= 20000 THEN 10
    ELSE IF rank <= 50000 THEN 5
    ELSE 1

\* the copy of estimateConversionRate inside the dashboard's calculateProjections
estimateConversionRateDashboard(rank) ==
    IF rank <= 1000 THEN 120
    ELSE IF rank <= 3000 THEN 80
    ELSE IF rank <= 5000 THEN 50
    ELSE IF rank <= 10000 THEN 30
    ELSE IF rank <= 20000 THEN 10
    ELSE IF rank <= 50000 THEN 5
    ELSE 1

\* the copy inside the data of the rank-to-install correlation chart
estimateConversionRateChart(r) ==
    IF r <= 1000 THEN 120
    ELSE IF r <= 3000 THEN 80
    ELSE IF r <= 5000 THEN 50
    ELSE IF r <= 10000 THEN 30
    ELSE IF r <= 20000 THEN 10
    ELSE IF r <= 50000 THEN 5
    ELSE 1

\* the copy inside the install impact of the keyword detail panel
estimateConversionRateImpact(rank) ==
    IF rank <= 1000 THEN 120
    ELSE IF rank <= 3000 THEN 80
    ELSE IF rank <= 5000 THEN 50
    ELSE IF rank <= 10000 THEN 30
    ELSE IF rank <= 20000 THEN 10
    ELSE IF rank <= 50000 THEN 5
    ELSE 1

\* the lower-cased words of the recommended titles, subtitles and keyword
\* fields
RecommendedKeywords(recommendations) ==
    LET Words(texts, Pieces(_)) ==
            UNION {{ToLowerCase(Pieces(texts[i])[j]) :
                       j \in DOMAIN Pieces(texts[i])} : i \in DOMAIN texts}
    IN  Words(recommendations.title, SplitSpaces)
        \cup Words(recommendations.subtitle, SplitSpaces)
        \cup Words(recommendations.keywordField, SplitCommas)

\* k.keyword.toLowerCase().includes(rk) || rk.includes(k.keyword.toLowerCase())
\* for some rk of the set
MatchesAny(k, selected) ==
    LET lower == ToLowerCase(k["keyword"].s)
    IN  \E rk \in selected : Includes(lower, rk) \/ Includes(rk, lower)

\* the keywords to project: the matching ones, or else the top five by volume
KeywordsToProject(keywords, selected) ==
    LET Matching(k) == MatchesAny(k, selected)
        matching == FilterSeq(keywords, Matching)
    IN  IF Len(matching) = 0 THEN TopByVolume(keywords, HasVolume) ELSE matching

\* the two arrays built by timeframes.forEach, for a projected rank Rank(k, m)
ProjectionsOf(keywordsToProject, Rank(_, _)) ==
    LET names == {keywordsToProject[i]["keyword"].s : i \in DOMAIN keywordsToProject}
        LastNamed(name) ==
            keywordsToProject[LastOf({i \in DOMAIN keywordsToProject :
                                         keywordsToProject[i]["keyword"].s = name})]
        MonthlyDownloads(k, months) ==
            OrDefault(k, "volume", 100) * estimateConversionRate(Rank(k, months)) * 30
    IN  [downloads |->
             [t \in DOMAIN timeframes |->
                 RoundDiv(Sum([i \in DOMAIN keywordsToProject |->
                                  MonthlyDownloads(keywordsToProject[i],
                                                   timeframes[t])]),
                          1000)],
         rankImprovements |->
             [name \in names |->
                 [t \in DOMAIN timeframes |-> Rank(LastNamed(name), timeframes[t])]]]

generateGrowthProjections(appData, recommendations) ==
    LET projections ==
            ProjectionsOf(KeywordsToProject(appData.keywords,
                                            RecommendedKeywords(recommendations)),
                          GrowthProjectedRank)
    IN  [timeframes |-> timeframes,
         projectedDownloads |-> projections.downloads,
         projectedRankImprovements |-> projections.rankImprovements]

\* the result of analyzeAppData from its three parts
AnalysisOf(appData, insights, recommendations) ==
    [insights |-> insights,
     recommendations |-> recommendations,
     projections |-> generateGrowthProjections(appData, recommendations),
     missingDataWarnings |-> generateMissingDataWarnings(appData)]

analyzeAppData(appData) ==
    AnalysisOf(appData, generateKeywordInsights(appData),
               generateMetadataRecommendations(appData))

\* the keywords array as analyzeAppData leaves it: every sort and every push
\* of the aggregator is applied to a fresh array, the result of filter or
\* the copy [...keywords], and no record is assigned to; this variant sorts
\* the array itself where the title keywords are ranked
KeywordsAfterAnalysisTitleSorted(keywords) == SortDesc(keywords, scoreTitleKeyword)

\* the same, sorting the array itself where the keyword field is ranked
KeywordsAfterAnalysisFieldSorted(keywords) ==
    SortDesc(keywords, scoreKeywordFieldKeyword)

\* the keywords array as analyzeAppData leaves it: every sort and every push
\* of the aggregator is applied to a fresh array, the result of filter or
\* the copy [...keywords], and no record is assigned to
KeywordsAfterAnalysis(keywords) == keywords

(***************************************************************************)
(* The dashboard's calculateProjections.                                   *)
(***************************************************************************)
\* selectedMetadata as handleFileUpload sets it from a fresh analysis
InitialSelection(analysisResult) ==
    [title |-> analysisResult.recommendations.title[1],
     subtitle |-> analysisResult.recommendations.subtitle[1],
     keywordField |-> analysisResult.recommendations.keywordField[1]]

NoSelection == [title |-> Null, subtitle |-> Null, keywordField |-> Null]

\* a selected text that is null or empty is falsy
Unselected(text) == text = Null \/ text = ""

StopWords == {"and", "the", "for", "with"}

\* the set allSelectedKeywords
AllSelectedKeywords(selectedMetadata) ==
    LET Kept(word) == Len(word) > 2 /\ ToLowerCase(word) \notin StopWords
        Words(text) ==
            LET kept == FilterSeq(SplitSpaces(text), Kept)
            IN  {ToLowerCase(kept[i]) : i \in DOMAIN kept}
        Listed(text) ==
            LET pieces == SplitCommas(text)
            IN  {ToLowerCase(pieces[i]) : i \in DOMAIN pieces}
    IN  Words(selectedMetadata.title) \cup Words(selectedMetadata.subtitle)
        \cup Listed(selectedMetadata.keywordField)

\* the value handed to setDynamicProjections
calculateProjections(appData, selectedMetadata) ==
    LET projections ==
            ProjectionsOf(KeywordsToProject(appData.keywords,
                                            AllSelectedKeywords(selectedMetadata)),
                          DashboardProjectedRank)
    IN  [downloads |-> projections.downloads,
         rankImprovements |-> projections.rankImprovements]

\* the keywords array as calculateProjections leaves it: the fallback sort
\* is applied to the array returned by filter
KeywordsAfterProjections(keywords) == keywords

(***************************************************************************)
(* Prediction library (csv-parser.ts from line 640) and the KeywordAnalysis *)
(* component.  A JavaScript number is [nan, val]; the figures of the four  *)
(* horizons (three, six, nine, twelve months) are sequences of length 4.   *)
(***************************************************************************)
Finite(v) == [nan |-> FALSE, val |-> v]

\* the value of keyword.field in arithmetic: undefined makes NaN
FieldOf(keyword, field) ==
    IF field \in DOMAIN keyword THEN Finite(keyword[field].n) ELSE NaN

\* growthFactor as a multiple of 1 / 5000000:
\* 0.2 * (1 - d/100) * (min(v/100, 1) * 0.5 + r/100 * 0.3 + c/100 * 0.2)
GrowthFactor(difficulty, volume, relevancyScore, chance) ==
    IF difficulty.nan \/ volume.nan \/ relevancyScore.nan \/ chance.nan THEN NaN
    ELSE Finite((100 - difficulty.val)
                   * (50 * Min(volume.val, 100) + 30 * relevancyScore.val
                      + 20 * chance.val))

\* Math.max(1, Math.round(rank * (1 - growthFactor)))
GrownRank(rank, growthFactor) ==
    IF rank.nan \/ growthFactor.nan THEN NaN
    ELSE Finite(Max(1, RoundDiv(rank.val * (5000000 - growthFactor.val), 5000000)))

\* visibility of a rank as numerator / (10 * denominator):
\* rank <= 10 ? 0.5 - (rank - 1) * 0.05 : 0.1 / rank
VisibilityNumerator(rank) == IF rank <= 10 THEN 55 - 5 * rank ELSE 1
VisibilityDenominator(rank) == IF rank <= 10 THEN 10 ELSE rank

\* calculateInstallImpact(oldRank, newRank) inside predictRankingGrowth
calculateInstallImpact(oldRank, newRank, volume) ==
    IF ~newRank.nan /\ oldRank = newRank.val THEN Finite(0)
    ELSE IF newRank.nan \/ volume.nan THEN NaN
    ELSE Finite(RoundDiv((VisibilityNumerator(newRank.val) * VisibilityDenominator(oldRank)
                          - VisibilityNumerator(oldRank)
                                * VisibilityDenominator(newRank.val))
                         * 10 * volume.val,
                     VisibilityDenominator(oldRank)
                         * VisibilityDenominator(newRank.val)))

\* the four predicted ranks, each grown from the one before
PredictedRanksFrom(currentRank, growthFactor) ==
    LET F[i \in 0..4] == IF i = 0 THEN Finite(currentRank)
                         ELSE GrownRank(F[i - 1], growthFactor)
    IN  [i \in 1..4 |-> F[i]] \o <<>>

\* the result of predictRankingGrowth from its predicted ranks
PredictionOf(keyword, currentRank, predictedRanks) ==
    [keyword |-> keyword["keyword"].s,
     currentRank |-> currentRank,
     predictedRanks |-> predictedRanks,
     predictedInstallImpact |->
         [i \in 1..4 |-> calculateInstallImpact(currentRank, predictedRanks[i],
                                                FieldOf(keyword, "volume"))] \o <<>>]

predictRankingGrowth(keyword, currentRank) ==
    PredictionOf(keyword, currentRank,
                 PredictedRanksFrom(currentRank,
                                    GrowthFactor(FieldOf(keyword, "difficulty"),
                                                 FieldOf(keyword, "volume"),
                                                 FieldOf(keyword, "relevancyScore"),
                                                 FieldOf(keyword, "chance"))))

\* data.field ?? fallback
OrElse(data, field, fallback) ==
    IF field \in DOMAIN data THEN data[field].n ELSE fallback

\* getKeywordMetrics, for the three values its Math.random calls produced
getKeywordMetrics(data, draw) ==
    [currentRank |-> OrElse(data, "currentRank", draw.rank),
     volume |-> OrElse(data, "volume", draw.volume),
     difficulty |-> OrElse(data, "difficulty", draw.difficulty)]

\* Math.max(1, Math.round(currentRank - (currentRank - targetRank) * progress))
\* with progress = Math.min(1, (100 - difficulty) / 100)
calculatePredictedRank(currentRank, targetRank, difficulty) ==
    Max(1, RoundDiv(100 * currentRank
                     - (currentRank - targetRank) * Min(100, 100 - difficulty),
                 100))

\* Math.pow(1.2, j / 10) in ten-thousandths, for j = 0 .. 9
TenthPowers == <<10000, 10184, 10371, 10562, 10757, 10954, 11156, 11361, 11570, 11783>>

\* scaled * Math.pow(1.2, q) for an integer q
RECURSIVE TimesWholePower(_, _)
TimesWholePower(scaled, q) ==
    IF q = 0 THEN scaled
    ELSE IF q > 0 THEN TimesWholePower((scaled * 12) \div 10, q - 1)
    ELSE TimesWholePower((scaled * 10) \div 12, q + 1)

\* Math.pow(1.2, k / 10) in ten-thousandths
PowerOfBase(k) == TimesWholePower(TenthPowers[(k % 10) + 1], k \div 10)

\* Math.round(volume * Math.pow(1.2, (currentRank - predictedRank) / 10))
calculatePredictedInstalls(volume, currentRank, predictedRank) ==
    RoundDiv(volume * PowerOfBase(currentRank - predictedRank), 10000)

\* one element of generatePredictions from its metrics
PredictedFor(data, metrics, predictedRanks) ==
    [keyword |-> data["keyword"].s,
     currentRank |-> metrics.currentRank,
     predictedRanks |-> predictedRanks,
     predictedInstalls |->
         [i \in 1..4 |-> calculatePredictedInstalls(metrics.volume,
                                                    metrics.currentRank,
                                                    predictedRanks[i])] \o <<>>]

TargetedFor(data, metrics, targetRanks) ==
    PredictedFor(data, metrics,
                 [i \in 1..4 |-> calculatePredictedRank(metrics.currentRank,
                                                        targetRanks[i],
                                                        metrics.difficulty)] \o <<>>)

generatePredictions(keywordData, targetRanks, draws) ==
    [i \in DOMAIN keywordData |->
        TargetedFor(keywordData[i], getKeywordMetrics(keywordData[i], draws[i]),
                    targetRanks)] \o <<>>

\* Math.round of the weighted score
calculateRecommendationScore(volume, difficulty, currentRank) ==
    RoundDiv(4 * Min(volume, 1000) + 30 * (100 - difficulty)
              + 30 * (100 - Min(currentRank, 100)),
          100)

\* the optimistic ranks: currentRank times 0.7, 0.5, 0.3, 0.2
OptimisticRanks(currentRank) ==
    <<Max(1, RoundDiv(7 * currentRank, 10)), Max(1, RoundDiv(5 * currentRank, 10)),
      Max(1, RoundDiv(3 * currentRank, 10)), Max(1, RoundDiv(2 * currentRank, 10))>>

RecommendedFor(data, metrics) ==
    [prediction |-> PredictedFor(data, metrics, OptimisticRanks(metrics.currentRank)),
     score |-> calculateRecommendationScore(metrics.volume, metrics.difficulty,
                                            metrics.currentRank)]

ScoreOf(recommendation) == recommendation.score

\* the sort by score, descending
SortByScore(q) == SortDesc(q, ScoreOf)

generateRecommendations(keywordData, draws) ==
    SortByScore([i \in DOMAIN keywordData |->
                    RecommendedFor(keywordData[i],
                                   getKeywordMetrics(keywordData[i], draws[i]))]
                \o <<>>)

\* the ranks map of the KeywordAnalysis effect: the record's rank if it is
\* truthy, else the rank drawn for it; a later record of the same keyword
\* overwrites an earlier one
RanksMap(keywordData, drawn) ==
    LET names == {keywordData[i]["keyword"].s : i \in DOMAIN keywordData}
        Last(name) == LastOf({i \in DOMAIN keywordData :
                                 keywordData[i]["keyword"].s = name})
    IN  [name \in names |->
            IF OrDefault(keywordData[Last(name)], "currentRank", 0) # 0
            THEN keywordData[Last(name)]["currentRank"].n
            ELSE drawn[Last(name)]]

\* newPredictions of the effect: ranks.get(keyword.keyword) || 101
EffectPredictions(keywordData, ranks) ==
    [i \in DOMAIN keywordData |->
        predictRankingGrowth(keywordData[i],
                             IF ranks[keywordData[i]["keyword"].s] # 0
                             THEN ranks[keywordData[i]["keyword"].s] ELSE 101)]
    \o <<>>

\* Math.pow(timeframe / 3, 1.2) in thousandths, for the four horizons
BaseMultiplier(timeframe) ==
    CASE timeframe = 3 -> 1000
      [] timeframe = 6 -> 2297
      [] timeframe = 9 -> 3737
      [] timeframe = 12 -> 5278

\* calculateTargetInstalls for the statistics of the selected keyword
calculateTargetInstalls(currentRank, targetRank, timeframe, stats) ==
    LET rankImprovement == currentRank - targetRank
        volume == OrElse(stats, "volume", 0)
        difficulty == OrElse(stats, "difficulty", 50)
    IN  IF rankImprovement <= 0 THEN 0
        ELSE Max(0, (volume * rankImprovement * BaseMultiplier(timeframe))
                        \div (10 * currentRank * (difficulty + 100)))

\* Math.max(1, Math.min(100, parseInt(value) || 1))
ClampTargetRank(value) == Max(1, Min(100, IF value = 0 THEN 1 ELSE value))

(***************************************************************************)
(* Metadata generation service (route POST /api/generate-metadata) and the *)
(* ASOMetadataGenerator component that calls it.                           *)
(***************************************************************************)
\* c.toUpperCase() of one character
UpperChar(c) ==
    IF \E u \in DOMAIN LowerOf : LowerOf[u] = c
    THEN CHOOSE u \in DOMAIN LowerOf : LowerOf[u] = c
    ELSE c

\* kw.charAt(0).toUpperCase() + kw.slice(1)
Capitalize(kw) ==
    IF Len(kw) = 0 THEN "" ELSE UpperChar(CharAt(kw, 1)) \o SubSeq(kw, 2, Len(kw))

\* titlePatterns[i](kw)
titlePatterns(i, kw) ==
    CASE i = 0 -> "Easy " \o kw \o " - Track Your Progress"
      [] i = 1 -> kw \o " Pro - Smart Tracking & Analysis"
      [] i = 2 -> "Ultimate " \o kw \o " Assistant & Tracker"
      [] i = 3 -> kw \o " Master - Professional Tools"
      [] i = 4 -> "Smart " \o kw \o " - Your Personal Guide"

\* subtitlePatterns[i](kw)
subtitlePatterns(i, kw) ==
    CASE i = 0 -> "Boost your " \o kw \o " results with AI-powered insights"
      [] i = 1 -> "Professional " \o kw \o " tools for better performance"
      [] i = 2 -> "Smart " \o kw \o " tracking & personalized recommendations"
      [] i = 3 -> "Advanced " \o kw \o " analytics for professionals"
      [] i = 4 -> "The ultimate " \o kw \o " companion for success"

modifiers == <<"pro", "best", "top", "smart", "easy", "professional">>

\* the loop that packs the shuffled keywords into the keywords string
RECURSIVE PackKeywords(_, _)
PackKeywords(shuffled, keywordsString) ==
    IF shuffled = <<>> THEN keywordsString
    ELSE LET keyword == Head(shuffled)
         IN  IF Len(keywordsString \o keyword) <= 97
             THEN PackKeywords(Tail(shuffled),
                      keywordsString
                          \o (IF keywordsString # "" THEN ", " ELSE "")
                          \o keyword)
             ELSE PackKeywords(Tail(shuffled), keywordsString)

\* one option; draw holds what the calls of Math.random decide: the index
\* of the main keyword, the modifier of each keyword and the shuffled order
generateOption(keywords, seed, draw) ==
    LET mainKeyword == keywords[draw.main]
        title == Slice(titlePatterns(seed % 5, Capitalize(mainKeyword)), 30)
        subtitle == Slice(subtitlePatterns(seed % 5, ToLowerCase(mainKeyword)), 30)
        baseKeywords ==
            keywords \o [i \in DOMAIN keywords |->
                            draw.modifiers[i] \o " " \o keywords[i]]
        shuffled == [i \in DOMAIN baseKeywords |-> baseKeywords[draw.order[i]]]
    IN  [title |-> Str(title),
         subtitle |-> Str(subtitle),
         keywords |-> Str(PackKeywords(shuffled, ""))]

\* the keywords of the request plus "sahsah" and "sahseh"
AllKeywords(keywords) ==
    LET withFirst == IF "sahsah" \in Range(keywords) THEN keywords
                     ELSE Append(keywords, "sahsah")
    IN  IF "sahseh" \in Range(keywords) THEN withFirst
        ELSE Append(withFirst, "sahseh")

generateMetadataOptions(keywords, draws) ==
    [index \in 1..3 |-> generateOption(AllKeywords(keywords), index, draws[index])]

\* outcomes of Math.random explored for one option over n keywords: any main
\* keyword; one modifier for all keywords, first or last of the list; the
\* order kept or reversed
OptionDraws(n) ==
    {[main |-> m,
      modifiers |-> [i \in 1..n |-> modifiers[IF reversed THEN 6 ELSE 1]],
      order |-> [i \in 1..(2 * n) |-> IF reversed THEN 2 * n + 1 - i ELSE i]] :
        m \in 1..n, reversed \in BOOLEAN}

\* a JSON body: an object with one field
Body(field, value) == [x \in {field} |-> value]

InvalidKeywordsMsg == "Invalid keywords in request body"

\* the route handler: 400 without keywords, else 200 with the options
POSTResponse(body, draws) ==
    IF "keywords" \notin DOMAIN body \/ Len(body["keywords"]) = 0
    THEN [kind |-> "response", status |-> 400,
          body |-> Body("error", InvalidKeywordsMsg)]
    ELSE [kind |-> "response", status |-> 200,
          body |-> Body("suggestion",
                        generateMetadataOptions(body["keywords"], draws))]

SelectKeywordsMsg == "Please select at least one keyword to generate metadata."
GenerationFailedMsg ==
    "An error occurred while generating metadata. Please try again."

\* useState initial values of the component
InitialClient == [isLoading |-> FALSE, options |-> <<>>, error |-> Null]

\* data.map(k => k.keyword)
KeywordColumn(data) == [i \in DOMAIN data |-> data[i]["keyword"].s]

\* onChange of the select-all checkbox of the keyword table
selectAll(selected, data) ==
    IF Len(selected) = Len(data) THEN <<>> ELSE KeywordColumn(data)

\* handleKeywordToggle: untick a ticked keyword, tick an unticked one last
handleKeywordToggle(selected, keyword) ==
    IF keyword \in Range(selected)
    THEN LET Other(k) == k # keyword IN FilterSeq(selected, Other)
    ELSE Append(selected, keyword)

(***************************************************************************)
(* Input files.                                                            *)
(***************************************************************************)
\* the cells found beneath each header name of a flexible-parser file
CellsFor(h) ==
    CASE h = "Keyword" -> {"", "run", "yoga"}
      [] h = "Search Term" -> {"", "run", "yoga"}
      [] h = "Term" -> {"", "swim"}
      [] h = "Volume" -> {"", "1,200", "n/a"}
      [] h = "Traffic" -> {" ", "35%", "$7k"}
      [] h = "Notes" -> {"", "top pick"}
      [] h = "appName" -> {"", "Fit"}

\* header rows: with and without a keyword column, by name and by synonym,
\* first or not, alone or twice, with numeric, extension and app-detail
\* columns
HeaderRows ==
    { <<"Keyword">>, <<"Volume">>,
      <<"Keyword", "Volume">>, <<"Notes", "Keyword">>,
      <<"Search Term", "Traffic">>, <<"Keyword", "Term">>,
      <<"Keyword", "appName">>, <<"Notes", "Traffic">> }

AllCells ==
    UNION {CellsFor(h) : h \in {"Keyword", "Search Term", "Term", "Volume",
                                "Traffic", "Notes", "appName"}}

RowsUnder(h) ==
    {c \in [1..Len(h) -> AllCells] : \A i \in 1..Len(h) : c[i] \in CellsFor(h[i])}

\* a file with no line at all
EmptyFile == [header |-> <<>>, rows |-> <<>>]


\* header lines of strict-parser files
StrictHeaders ==
    { EXPECTED_HEADERS,
      Append(EXPECTED_HEADERS, "Current Rank"),
      SubSeq(EXPECTED_HEADERS, 1, Len(EXPECTED_HEADERS) - 1) }

ValidRow ==
    <<"Fit", "id1", "ios", "iphone", "us", "en", "id1", "Fit", "run", "list",
      "TRUE", "1200", "35", "5000", "no", "", "", "40", "60", "80">>

\* data lines of strict-parser files, as cells
StrictRows ==
    { ValidRow,
      \* out-of-range and malformed numbers, blank volume
      [ValidRow EXCEPT ![9] = "yoga", ![12] = "", ![13] = "150", ![18] = "12abc",
                       ![19] = "-5", ![20] = "n/a"],
      \* no keyword
      [ValidRow EXCEPT ![9] = ""],
      \* one column short
      SubSeq(ValidRow, 1, Len(ValidRow) - 1),
      \* a thousands separator inside a cell, blank difficulty and chance
      [ValidRow EXCEPT ![9] = "swim", ![12] = "1,200", ![13] = "", ![19] = "",
                       ![20] = "250"],
      \* a line of white space
      <<"  ">>,
      \* a row with a Current Rank cell
      Append(ValidRow, "7") }

StrictNames == {"keywords.csv", "keywords.txt"}

StrictText(h, rows, sep) ==
    Join(<<Join(h, sep)>> \o [i \in DOMAIN rows |-> Join(rows[i], sep)], "\n")

NoFile == [none |-> TRUE]
NoResult == [kind |-> "none"]

(***************************************************************************)
(* Actions of the upload pages.                                            *)
(***************************************************************************)
NoRankInput == [none |-> TRUE]
NoDataset == [none |-> TRUE]
NoAnalysis == [none |-> TRUE]
NoDynamic == [none |-> TRUE]

\* nothing has been handed to the aggregator
InsightIdle ==
    /\ dataset = NoDataset
    /\ runs = <<>>
    /\ dynamic = NoDynamic

\* dynamicProjections before any calculation
NoProjections == [downloads |-> <<>>, rankImprovements |-> [x \in {} |-> <<>>]]

\* the useState initial values of the Dashboard
DashInitial ==
    /\ appDataState = NoDataset
    /\ analysisResultState = NoAnalysis
    /\ selectedMetadataState = NoSelection
    /\ dynamicProjections = NoProjections
    /\ projectionsCalculated = FALSE
    /\ uploadError = Null

\* nothing has been handed to the prediction functions
PredictIdle ==
    /\ keywordRecords = <<>>
    /\ predictRuns = <<>>

NoTimer == [pending |-> FALSE]

\* no file has been chosen in FileUpload
UploadIdle ==
    /\ chosenFiles = <<>>
    /\ inFlight = {}
    /\ loadedData = <<>>
    /\ isLoadingState = FALSE
    /\ fileUploadError = Null

\* KeywordAnalysis has not run its effect
TimerIdle ==
    /\ keywordRanksState = <<>>
    /\ predictionsState = <<>>
    /\ recommendationsState = <<>>
    /\ selectedKeywordState = Null
    /\ pendingTimer = NoTimer

AsyncIdle == UploadIdle /\ TimerIdle

PagesIdle == InsightIdle /\ DashInitial /\ PredictIdle /\ AsyncIdle


NoRankOutput == [by |-> "none"]
Idle == [kind |-> "idle"]

Init ==
    /\ file = NoFile
    /\ parser = "none"
    /\ result = NoResult
    /\ rankInput = NoRankInput
    /\ rankOutput = NoRankOutput
    /\ analysis = NoAnalysis
    /\ selectedKeywords = <<>>
    /\ channel = Idle
    /\ client = InitialClient
    /\ PagesIdle

\* parseCSVData(file): Papa.parse, then processCSVResults on its rows
ParseCSVData ==
    /\ parser = "none"
    /\ \E f \in {EmptyFile} \cup
                UNION {{[header |-> h, rows |-> r] :
                          r \in SeqsOf(RowsUnder(h), 0, MaxRows)} : h \in HeaderRows},
          id \in Ids :
          /\ file' = f
          /\ parser' = "flexible"
          /\ result' = processCSVResults(PapaParse(f), id)
    /\ UNCHANGED <<pageVars, rankVars, metaVars>>

\* parseCSV(file) on the text of the file
ParseCSV ==
    /\ parser = "none"
    /\ \E name \in StrictNames,
          text \in {""} \cup
                   {StrictText(h, rows, sep) :
                       h \in StrictHeaders,
                       rows \in SeqsOf(StrictRows, 0, MaxStrictRows),
                       sep \in {",", "\t"}} :
          /\ file' = [name |-> name, text |-> text]
          /\ parser' = "strict"
          /\ result' = parseCSV(file')
    /\ UNCHANGED <<pageVars, rankVars, metaVars>>

\* the previous outcome is dropped before another file is chosen
Discard ==
    /\ parser # "none"
    /\ file' = NoFile
    /\ parser' = "none"
    /\ result' = NoResult
    /\ UNCHANGED <<pageVars, rankVars, metaVars>>

Next ==
    \/ ParseCSVData
    \/ ParseCSV
    \/ Discard

Spec == Init /\ [][Next]_vars

(***************************************************************************)
(* The rank projection applied to one keyword and one horizon.             *)
(***************************************************************************)
\* keyword records with an optional rank and an optional difficulty
RankKeywords ==
    {[x \in {"keyword"} |-> Str("run")]} \cup
    {Put([x \in {"keyword"} |-> Str("run")], "currentRank", Num(r)) : r \in 0..MaxRank} \cup
    {Put([x \in {"keyword"} |-> Str("run")], "difficulty", Num(d)) : d \in 0..100} \cup
    {Put(Put([x \in {"keyword"} |-> Str("run")], "currentRank", Num(r)),
         "difficulty", Num(d)) : r \in 0..MaxRank, d \in 0..100}

InitRank ==
    /\ file = NoFile
    /\ parser = "none"
    /\ result = NoResult
    /\ rankInput \in {[keyword |-> k, months |-> m] :
                         k \in RankKeywords, m \in 1..MaxMonths}
    /\ rankOutput = NoRankOutput
    /\ analysis = NoAnalysis
    /\ selectedKeywords = <<>>
    /\ channel = Idle
    /\ client = InitialClient
    /\ PagesIdle

\* the body of keywordsToProject.forEach in generateGrowthProjections
GenerateGrowthProjections ==
    /\ rankOutput.by = "none"
    /\ LET projectedRank == GrowthProjectedRank(rankInput.keyword, rankInput.months)
       IN  rankOutput' = [by |-> "generateGrowthProjections",
                          projectedRank |-> projectedRank,
                          conversionRate |-> estimateConversionRate(projectedRank)]
    /\ UNCHANGED <<pageVars, parseVars, rankInput, metaVars>>

\* the body of matchingKeywords.forEach in the dashboard's calculateProjections
CalculateProjections ==
    /\ rankOutput.by = "none"
    /\ LET projectedRank == DashboardProjectedRank(rankInput.keyword, rankInput.months)
       IN  rankOutput' = [by |-> "calculateProjections",
                          projectedRank |-> projectedRank,
                          conversionRate |->
                              estimateConversionRateDashboard(projectedRank)]
    /\ UNCHANGED <<pageVars, parseVars, rankInput, metaVars>>

NextRank ==
    \/ GenerateGrowthProjections
    \/ CalculateProjections

SpecRank == InitRank /\ [][NextRank]_vars

(***************************************************************************)
(* The dashboard: upload and analysis, keyword selection, and one call of  *)
(* the metadata generation service.                                        *)
(***************************************************************************)
LongKeywordA == "guided meditation and breathing exercises for better sleep"
LongKeywordB == "healthy meal planner and calorie counter with recipes"

MetaHeader == <<"Keyword", "Volume", "Difficulty", "appName">>

MetaRowRun == <<"run", "1,200", "40", "Fit">>
MetaRowYoga == <<"yoga", "900", "20", "">>
MetaRowLongA == <<LongKeywordA, "900", "20", "Daily Wellness Companion">>
MetaRowLongB == <<LongKeywordB, "", "", "">>

\* uploads of the dashboard: with and without an app name, with short and
\* with long keywords, from no data row to three
MetaFiles ==
    {[header |-> MetaHeader, rows |-> r] :
        r \in {<<>>, <<MetaRowRun>>, <<MetaRowYoga>>, <<MetaRowLongA>>,
               <<MetaRowLongB>>, <<MetaRowRun, MetaRowYoga>>,
               <<MetaRowYoga, MetaRowRun>>, <<MetaRowLongA, MetaRowLongB>>,
               <<MetaRowLongB, MetaRowLongA>>,
               <<MetaRowYoga, MetaRowLongA, MetaRowRun>>}}

\* handleFileUpload: parse the file, then analyse the parsed dataset
HandleFileUpload ==
    /\ parser = "none"
    /\ \E f \in MetaFiles, id \in Ids :
          /\ file' = f
          /\ parser' = "flexible"
          /\ result' = processCSVResults(PapaParse(f), id)
          /\ analysis' = IF result'.kind = "ok"
                         THEN generateMetadataRecommendations(result')
                         ELSE NoAnalysis
    /\ UNCHANGED <<pageVars, rankVars, selectedKeywords, channel, client>>

\* keyword files for the strict parser: one row, and two rows that carry the
\* same keyword for two countries
StrictMetaFiles ==
    {[name |-> "keywords.csv", text |-> StrictText(EXPECTED_HEADERS, rows, ",")] :
        rows \in {<<ValidRow>>, <<ValidRow, [ValidRow EXCEPT ![5] = "uk"]>>}}

\* a keyword file parsed by parseCSV for the keyword table
UploadKeywordFile ==
    /\ parser = "none"
    /\ \E f \in StrictMetaFiles :
          /\ file' = f
          /\ parser' = "strict"
          /\ result' = parseCSV(f)
    /\ UNCHANGED <<pageVars, rankVars, metaVars>>

\* the data property of the keyword table
TableData == IF parser = "strict" THEN result.records ELSE result.keywords

\* a click on a row of the keyword table, before metadata is generated
ToggleKeyword ==
    /\ result.kind = "ok"
    /\ channel = Idle
    /\ client = InitialClient
    /\ \E i \in DOMAIN TableData :
          selectedKeywords' =
              handleKeywordToggle(selectedKeywords, TableData[i]["keyword"].s)
    /\ UNCHANGED <<pageVars, parseVars, rankVars, analysis, channel, client>>

\* a click on the select-all checkbox of the keyword table
SelectAllKeywords ==
    /\ result.kind = "ok"
    /\ channel = Idle
    /\ client = InitialClient
    /\ selectedKeywords' = selectAll(selectedKeywords, TableData)
    /\ UNCHANGED <<pageVars, parseVars, rankVars, analysis, channel, client>>

\* generateMetadata up to the fetch: refuse an empty selection, else send
GenerateMetadata ==
    /\ result.kind = "ok"
    /\ channel = Idle
    /\ client = InitialClient
    /\ IF Len(selectedKeywords) = 0
       THEN /\ client' = [client EXCEPT !.error = SelectKeywordsMsg]
            /\ UNCHANGED channel
       ELSE /\ client' = [client EXCEPT !.isLoading = TRUE, !.error = Null]
            /\ channel' = [kind |-> "request",
                           body |-> Body("keywords", selectedKeywords)]
    /\ UNCHANGED <<pageVars, parseVars, rankVars, analysis, selectedKeywords>>

\* the route handler answers the request
POST ==
    /\ channel.kind = "request"
    /\ \E draws \in [1..3 -> OptionDraws(Len(AllKeywords(channel.body["keywords"])))] :
          channel' = POSTResponse(channel.body, draws)
    /\ UNCHANGED <<pageVars, parseVars, rankVars, analysis, selectedKeywords, client>>

\* generateMetadata after the fetch: keep data.options, or report a failure
ReceiveResponse ==
    /\ channel.kind = "response"
    /\ client' =
          IF channel.status # 200
          THEN [client EXCEPT !.isLoading = FALSE, !.error = GenerationFailedMsg]
          ELSE [client EXCEPT
                   !.isLoading = FALSE,
                   !.options = IF "options" \in DOMAIN channel.body
                               THEN channel.body["options"] ELSE Undefined]
    /\ channel' = [kind |-> "received", status |-> channel.status,
                   body |-> channel.body]
    /\ UNCHANGED <<pageVars, parseVars, rankVars, analysis, selectedKeywords>>

NextMeta ==
    \/ HandleFileUpload
    \/ UploadKeywordFile
    \/ ToggleKeyword
    \/ SelectAllKeywords
    \/ GenerateMetadata
    \/ POST
    \/ ReceiveResponse

SpecMeta == Init /\ [][NextMeta]_vars

(***************************************************************************)
(* The insight aggregator applied to a dataset, twice at most, and the     *)
(* dashboard's calculateProjections applied to the same dataset.           *)
(***************************************************************************)
\* a keyword record from its text and its numeric fields
KeywordRecord(keyword, metrics) ==
    [x \in {"keyword"} \cup DOMAIN metrics |->
        IF x = "keyword" THEN Str(keyword) ELSE Num(metrics[x])]

NoMetrics == [x \in {} |-> 0]

KwYoga == KeywordRecord("yoga", [volume |-> 900, difficulty |-> 20, currentRank |-> 60])
KwYogaClass ==
    KeywordRecord("yoga class", [volume |-> 900, difficulty |-> 30, currentRank |-> 75])
KwYogaPants ==
    KeywordRecord("yoga pants", [volume |-> 450, difficulty |-> 25, currentRank |-> 90])
KwYogaYoga ==
    KeywordRecord("yoga yoga", [volume |-> 500, difficulty |-> 35, currentRank |-> 70])
KwRun == KeywordRecord("run", NoMetrics)
KwRunningShoes ==
    KeywordRecord("running shoes", [volume |-> 1200, difficulty |-> 40, currentRank |-> 80])
KwRunningApp ==
    KeywordRecord("running app", [volume |-> 400, difficulty |-> 10, currentRank |-> 10])
KwSleepSounds ==
    KeywordRecord("sleep sounds", [volume |-> 350, difficulty |-> 0, currentRank |-> 55])
KwSleep == KeywordRecord("sleep", [volume |-> 300, difficulty |-> 39, currentRank |-> 51])
KwMealPlan == KeywordRecord("meal plan", [volume |-> 0])

\* records a short dataset is drawn from
ShortPool == {KwYoga, KwYogaClass, KwYogaYoga, KwRun, KwRunningShoes, KwSleepSounds}

\* datasets with more than five keywords in each filtered list
LongKeywords ==
    {<<KwRun, KwSleep, KwRunningApp, KwYogaPants, KwSleepSounds, KwYogaYoga,
       KwYogaClass, KwYoga, KwRunningShoes, KwMealPlan>>,
     <<KwRunningShoes, KwYoga, KwYogaClass, KwYogaYoga, KwYogaPants,
       KwRunningApp, KwSleepSounds, KwSleep, KwMealPlan, KwRun>>}

\* the datasets handed to the aggregator: no keyword twice, as the parser
\* leaves them, and the dataset without keywords
Datasets ==
    {[appDetails |-> d, keywords |-> k] :
        d \in {EmptyObj, [x \in {"appName"} |-> Str("Fit")]},
        k \in {q \in SeqsOf(ShortPool, 0, MaxShortDataset) : Injective(q)}
              \cup LongKeywords}

InitInsight ==
    /\ file = NoFile
    /\ parser = "none"
    /\ result = NoResult
    /\ rankInput = NoRankInput
    /\ rankOutput = NoRankOutput
    /\ analysis = NoAnalysis
    /\ selectedKeywords = <<>>
    /\ channel = Idle
    /\ client = InitialClient
    /\ dataset \in Datasets
    /\ runs = <<>>
    /\ dynamic = NoDynamic
    /\ DashInitial
    /\ PredictIdle
    /\ AsyncIdle

\* one call of analyzeAppData on the dataset
AnalyzeAppData ==
    /\ Len(runs) < 2
    /\ dynamic = NoDynamic
    /\ runs' = Append(runs, analyzeAppData(dataset))
    /\ dataset' = [dataset EXCEPT !.keywords = KeywordsAfterAnalysis(@)]
    /\ UNCHANGED <<parseVars, rankVars, metaVars, dashVars, predictVars, asyncVars,
                   dynamic>>

\* calculateProjections with the metadata selected by handleFileUpload
CalculateDynamicProjections ==
    /\ Len(runs) > 0
    /\ dynamic = NoDynamic
    /\ ~Unselected(InitialSelection(runs[Len(runs)]).title)
    /\ ~Unselected(InitialSelection(runs[Len(runs)]).subtitle)
    /\ ~Unselected(InitialSelection(runs[Len(runs)]).keywordField)
    /\ dynamic' = calculateProjections(dataset, InitialSelection(runs[Len(runs)]))
    /\ dataset' = [dataset EXCEPT !.keywords = KeywordsAfterProjections(@)]
    /\ UNCHANGED <<parseVars, rankVars, metaVars, dashVars, predictVars, asyncVars, runs>>

NextInsight ==
    \/ AnalyzeAppData
    \/ CalculateDynamicProjections

SpecInsight == InitInsight /\ [][NextInsight]_vars

(***************************************************************************)
(* The Dashboard component: upload, Upload New Data, metadata selection    *)
(* and Calculate Projections.                                              *)
(***************************************************************************)
\* the files chosen in the Dashboard's upload field
DashFiles ==
    {[header |-> MetaHeader, rows |-> r] :
        r \in {<<>>, <<MetaRowRun>>, <<MetaRowYoga, MetaRowRun>>}}

\* the Dashboard shows the upload page
UploadPageShown == appDataState = NoDataset \/ analysisResultState = NoAnalysis

\* handleFileUpload: parse, keep the dataset, analyse it, preselect the
\* first recommendations; a failed parse only leaves its message
DashHandleFileUpload ==
    /\ UploadPageShown
    /\ \E f \in DashFiles, id \in Ids :
          LET parsedData == processCSVResults(PapaParse(f), id)
          IN  IF parsedData.kind = "ok"
              THEN /\ appDataState' = parsedData
                   /\ analysisResultState' = analyzeAppData(parsedData)
                   /\ selectedMetadataState' =
                         IF Len(analysisResultState'.recommendations.title) > 0
                         THEN InitialSelection(analysisResultState')
                         ELSE selectedMetadataState
                   /\ uploadError' = Null
              ELSE /\ uploadError' = parsedData.message
                   /\ UNCHANGED <<appDataState, analysisResultState, selectedMetadataState>>
    /\ UNCHANGED <<parseVars, rankVars, metaVars, insightVars, predictVars, asyncVars,
                   dynamicProjections, projectionsCalculated>>

\* the onClick of the Upload New Data button
DashUploadNewData ==
    /\ ~UploadPageShown
    /\ appDataState' = NoDataset
    /\ analysisResultState' = NoAnalysis
    /\ UNCHANGED <<parseVars, rankVars, metaVars, insightVars, predictVars, asyncVars, selectedMetadataState,
                   dynamicProjections, projectionsCalculated, uploadError>>

\* handleMetadataSelection on one of the recommended options
DashHandleMetadataSelection ==
    /\ ~UploadPageShown
    /\ \E field \in {"title", "subtitle", "keywordField"} :
          \E i \in DOMAIN analysisResultState.recommendations[field] :
              selectedMetadataState' =
                  [selectedMetadataState EXCEPT
                      ![field] = analysisResultState.recommendations[field][i]]
    /\ projectionsCalculated' = FALSE
    /\ UNCHANGED <<parseVars, rankVars, metaVars, insightVars, predictVars, asyncVars, appDataState,
                   analysisResultState, dynamicProjections, uploadError>>

\* calculateProjections, from the Calculate Projections button
DashCalculateProjections ==
    /\ ~UploadPageShown
    /\ IF \/ Unselected(selectedMetadataState.title)
          \/ Unselected(selectedMetadataState.subtitle)
          \/ Unselected(selectedMetadataState.keywordField)
       THEN UNCHANGED <<dynamicProjections, projectionsCalculated, appDataState>>
       ELSE /\ projectionsCalculated' = TRUE
            /\ dynamicProjections' = calculateProjections(appDataState, selectedMetadataState)
            /\ appDataState' = [appDataState EXCEPT !.keywords = KeywordsAfterProjections(@)]
    /\ UNCHANGED <<parseVars, rankVars, metaVars, insightVars, predictVars, asyncVars, analysisResultState,
                   selectedMetadataState, uploadError>>

\* the install cards of the projection panel: the label of each card, in
\* months, and the figure under it
InstallCards(projections) ==
    (IF Len(projections.downloads) > 0
     THEN <<[months |-> 3, installs |-> projections.downloads[1]]>> ELSE <<>>)
    \o (IF Len(projections.downloads) > 1
        THEN <<[months |-> 6, installs |-> projections.downloads[2]]>> ELSE <<>>)
    \o (IF Len(projections.downloads) > 2
        THEN <<[months |-> 12, installs |-> projections.downloads[3]]>> ELSE <<>>)

NextDash ==
    \/ DashHandleFileUpload
    \/ DashUploadNewData
    \/ DashHandleMetadataSelection
    \/ DashCalculateProjections

SpecDash == Init /\ [][NextDash]_vars

(***************************************************************************)
(* The prediction functions on fixed keyword records: the two library      *)
(* functions called directly, and the KeywordAnalysis component mounted on *)
(* the records.  Every call appends what it returned to predictRuns.       *)
(***************************************************************************)
\* a row of the strict parser with every metric, and a rank
PkComplete ==
    KeywordRecord("run", [volume |-> 800, difficulty |-> 40, relevancyScore |-> 80,
                          chance |-> 60, currentRank |-> 30])

\* a row of the strict parser: it has no currentRank field
PkNoRank ==
    KeywordRecord("yoga", [volume |-> 800, difficulty |-> 40, relevancyScore |-> 80,
                           chance |-> 60])

\* a row of the strict parser whose Volume cell was blank
PkNoVolume ==
    KeywordRecord("sleep", [difficulty |-> 40, relevancyScore |-> 80, chance |-> 60])

\* a record with the keyword alone
PkBare == KeywordRecord("meal plan", NoMetrics)

\* a record whose difficulty is above 100
PkHard ==
    KeywordRecord("fit", [volume |-> 100, difficulty |-> 150, relevancyScore |-> 100,
                          chance |-> 100, currentRank |-> 50])

\* a record whose metrics are all 0
PkZero ==
    KeywordRecord("zen", [volume |-> 0, difficulty |-> 0, relevancyScore |-> 0,
                          chance |-> 0, currentRank |-> 0])

PredictInputs ==
    {<<>>, <<PkComplete>>, <<PkNoRank>>, <<PkNoVolume>>, <<PkBare>>, <<PkHard>>,
     <<PkZero>>, <<PkNoRank, PkComplete>>, <<PkComplete, PkNoVolume>>}

\* the least and the greatest value of each Math.random default
MetricDraws ==
    {[rank |-> 1, volume |-> 100, difficulty |-> 0],
     [rank |-> 100, volume |-> 1099, difficulty |-> 99]}

\* the least and the greatest rank of Math.floor(Math.random() * 100) + 1
RankDraws == {1, 100}

\* targetRanks arguments of generatePredictions
TargetRankChoices == {<<20, 10, 5, 1>>, <<60, 60, 60, 60>>}

\* values typed into a target rank input, after parseInt
TargetRankInputs == {0, 10, 40, 150}

Timeframes == <<3, 6, 9, 12>>

InitPredict ==
    /\ file = NoFile
    /\ parser = "none"
    /\ result = NoResult
    /\ rankInput = NoRankInput
    /\ rankOutput = NoRankOutput
    /\ analysis = NoAnalysis
    /\ selectedKeywords = <<>>
    /\ channel = Idle
    /\ client = InitialClient
    /\ InsightIdle
    /\ DashInitial
    /\ keywordRecords \in PredictInputs
    /\ predictRuns = <<>>
    /\ AsyncIdle

\* one call of generatePredictions on the records
GeneratePredictions ==
    /\ Len(predictRuns) < MaxPredictRuns
    /\ \E targetRanks \in TargetRankChoices, draws \in [DOMAIN keywordRecords -> MetricDraws] :
          predictRuns' =
              Append(predictRuns,
                     [by |-> "generatePredictions", targetRanks |-> targetRanks,
                      predictions |-> generatePredictions(keywordRecords, targetRanks, draws)])
    /\ UNCHANGED <<parseVars, rankVars, metaVars, insightVars, dashVars, asyncVars,
                   keywordRecords>>

\* one call of generateRecommendations on the records
GenerateRecommendations ==
    /\ Len(predictRuns) < MaxPredictRuns
    /\ \E draws \in [DOMAIN keywordRecords -> MetricDraws] :
          predictRuns' =
              Append(predictRuns,
                     [by |-> "generateRecommendations",
                      recommendations |-> generateRecommendations(keywordRecords, draws)])
    /\ UNCHANGED <<parseVars, rankVars, metaVars, insightVars, dashVars, asyncVars,
                   keywordRecords>>

\* the data effect of KeywordAnalysis with its timer callback: the ranks map,
\* the predictions, the recommendations and the selected keyword
KeywordAnalysisEffect ==
    /\ Len(predictRuns) < MaxPredictRuns
    /\ Len(keywordRecords) > 0
    /\ \E drawn \in [DOMAIN keywordRecords -> RankDraws],
          draws \in [DOMAIN keywordRecords -> MetricDraws] :
          predictRuns' =
              Append(predictRuns,
                     [by |-> "useEffect",
                      keywordRanks |-> RanksMap(keywordRecords, drawn),
                      predictions |->
                          EffectPredictions(keywordRecords,
                                            RanksMap(keywordRecords, drawn)),
                      recommendations |-> generateRecommendations(keywordRecords, draws),
                      selectedKeyword |-> keywordRecords[1]["keyword"].s])
    /\ UNCHANGED <<parseVars, rankVars, metaVars, insightVars, dashVars, asyncVars,
                   keywordRecords>>

\* predictions.find(p => p.keyword === selectedKeyword)
SelectedPrediction(run) ==
    run.predictions[CHOOSE i \in DOMAIN run.predictions :
                       /\ run.predictions[i].keyword = run.selectedKeyword
                       /\ \A j \in 1..(i - 1) :
                             run.predictions[j].keyword # run.selectedKeyword]

\* keywordData.find(k => k.keyword === selectedKeyword)
SelectedStats(keywordData, run) ==
    keywordData[CHOOSE i \in DOMAIN keywordData :
                   /\ keywordData[i]["keyword"].s = run.selectedKeyword
                   /\ \A j \in 1..(i - 1) :
                         keywordData[j]["keyword"].s # run.selectedKeyword]

\* handleTargetRankChange with a number typed for one horizon, once the
\* effect has selected a keyword
HandleTargetRankChange ==
    /\ Len(predictRuns) > 0
    /\ Len(predictRuns) < MaxPredictRuns
    /\ predictRuns[Len(predictRuns)].by = "useEffect"
    /\ \E value \in TargetRankInputs, t \in DOMAIN Timeframes :
          LET run == predictRuns[Len(predictRuns)]
              currentRank == SelectedPrediction(run).currentRank
              newValue == ClampTargetRank(value)
          IN  predictRuns' =
                  Append(predictRuns,
                         [by |-> "handleTargetRankChange",
                          currentRank |-> currentRank,
                          targetRank |-> newValue,
                          timeframe |-> Timeframes[t],
                          installs |->
                              calculateTargetInstalls(currentRank, newValue,
                                                      Timeframes[t],
                                                      SelectedStats(keywordRecords,
                                                                    run))])
    /\ UNCHANGED <<parseVars, rankVars, metaVars, insightVars, dashVars, asyncVars,
                   keywordRecords>>

NextPredict ==
    \/ GeneratePredictions
    \/ GenerateRecommendations
    \/ KeywordAnalysisEffect
    \/ HandleTargetRankChange

SpecPredict == InitPredict /\ [][NextPredict]_vars

(***************************************************************************)
(* FileUpload component (FileUpload.tsx).  parseCSVData reads the file     *)
(* asynchronously, so a call of processFile is two steps: up to the await, *)
(* and the continuation once the promise settles.  Promises of different   *)
(* files settle in any order.                                              *)
(***************************************************************************)
MaxUploads == 3

\* name.endsWith('.csv')
EndsWithCsv(name) ==
    Len(name) >= 4 /\ SubSeq(name, Len(name) - 3, Len(name)) = ".csv"

\* the files offered to the component: a name, a MIME type and the text; one
\* that parses, one whose browser reports no CSV type, one without keyword
\* rows, and one that is no CSV file
UploadFiles ==
    {[name |-> "run.csv", type |-> "text/csv",
      csv |-> [header |-> MetaHeader, rows |-> <<MetaRowRun>>]],
     [name |-> "both.csv", type |-> "application/vnd.ms-excel",
      csv |-> [header |-> MetaHeader, rows |-> <<MetaRowYoga, MetaRowRun>>]],
     [name |-> "empty.csv", type |-> "text/csv",
      csv |-> [header |-> MetaHeader, rows |-> <<>>]],
     [name |-> "notes.txt", type |-> "text/plain",
      csv |-> [header |-> MetaHeader, rows |-> <<MetaRowRun>>]]}

\* processFile(file) up to the await of parseCSVData
ProcessFileStart(f) ==
    /\ chosenFiles' = Append(chosenFiles, f)
    /\ IF f.type # "text/csv" /\ ~EndsWithCsv(f.name)
       THEN /\ fileUploadError' = "Please upload a CSV file."
            /\ UNCHANGED <<inFlight, isLoadingState>>
       ELSE /\ isLoadingState' = TRUE
            /\ fileUploadError' = Null
            /\ inFlight' = inFlight \cup {Len(chosenFiles')}
    /\ UNCHANGED <<parseVars, rankVars, metaVars, insightVars, dashVars, predictVars,
                   timerVars, loadedData>>

\* handleFileChange: the file input, disabled while isLoading
HandleFileChange ==
    /\ Len(chosenFiles) < MaxUploads
    /\ ~isLoadingState
    /\ \E f \in UploadFiles : ProcessFileStart(f)

\* handleDrop: the drop zone takes a file whatever isLoading is
HandleDrop ==
    /\ Len(chosenFiles) < MaxUploads
    /\ \E f \in UploadFiles : ProcessFileStart(f)

\* what parseCSVData settles with for the i-th chosen file
ParsedFrom(i, id) == processCSVResults(PapaParse(chosenFiles[i].csv), id)

\* the promise of one pending parse settles: onDataLoaded or setError, and
\* then the finally block
ProcessFileSettles ==
    \E i \in inFlight, id \in Ids :
        LET parsedData == ParsedFrom(i, id)
        IN  /\ inFlight' = inFlight \ {i}
            /\ IF parsedData.kind = "ok"
               THEN /\ loadedData' = Append(loadedData, [from |-> i, data |-> parsedData])
                    /\ UNCHANGED fileUploadError
               ELSE /\ fileUploadError' = parsedData.message
                    /\ UNCHANGED loadedData
            /\ isLoadingState' = FALSE
            /\ UNCHANGED <<parseVars, rankVars, metaVars, insightVars, dashVars,
                           predictVars, timerVars, chosenFiles>>

NextUpload ==
    \/ HandleFileChange
    \/ HandleDrop
    \/ ProcessFileSettles

SpecUpload == Init /\ [][NextUpload]_vars

(***************************************************************************)
(* KeywordAnalysis component: the data effect and its timer                *)
(* (KeywordAnalysis.tsx).  A render with another keywordData runs the      *)
(* cleanup of the previous effect and then the effect; the callback of     *)
(* setTimeout runs later, as a step of its own.                            *)
(***************************************************************************)
\* the component is rendered with another keywordData: the cleanup of the
\* previous effect clears its timer, and the effect runs for the new array
KeywordDataChanges ==
    /\ \E data \in PredictInputs, drawn \in [1..2 -> RankDraws] :
          /\ data # keywordRecords
          /\ keywordRecords' = data
          /\ IF Len(data) > 0
             THEN LET ranks == RanksMap(data, drawn)
                  IN  /\ keywordRanksState' = ranks
                      /\ pendingTimer' = [pending |-> TRUE, keywordData |-> data,
                                          ranks |-> ranks]
             ELSE /\ pendingTimer' = NoTimer
                  /\ UNCHANGED keywordRanksState
    /\ UNCHANGED <<parseVars, rankVars, metaVars, insightVars, dashVars, uploadVars,
                   predictRuns, predictionsState, recommendationsState,
                   selectedKeywordState>>

\* the callback handed to setTimeout
TimerFires ==
    /\ pendingTimer # NoTimer
    /\ \E draws \in [DOMAIN pendingTimer.keywordData -> MetricDraws] :
          /\ predictionsState' =
                EffectPredictions(pendingTimer.keywordData, pendingTimer.ranks)
          /\ recommendationsState' =
                generateRecommendations(pendingTimer.keywordData, draws)
          /\ selectedKeywordState' = pendingTimer.keywordData[1]["keyword"].s
    /\ pendingTimer' = NoTimer
    /\ UNCHANGED <<parseVars, rankVars, metaVars, insightVars, dashVars, uploadVars,
                   predictVars, keywordRanksState>>

NextTimer ==
    \/ KeywordDataChanges
    \/ TimerFires

SpecTimer == Init /\ [][NextTimer]_vars

(***************************************************************************)
(* Properties of the parsers.                                              *)
(***************************************************************************)
\* C1: the keywords sequence returned by the flexible parser holds no two
\* records with the same keyword string
C1_UniqueKeywords ==
    (parser = "flexible" /\ result.kind = "ok") =>
        \A i, j \in DOMAIN result.keywords :
            result.keywords[i]["keyword"] = result.keywords[j]["keyword"] => i = j

\* a parse of rows  k, other, k  that kept two records
C1_Witness ==
    /\ parser = "flexible" /\ result.kind = "ok"
    /\ file.header[1] = "Keyword"
    /\ Len(file.rows) = 3
    /\ file.rows[1][1] = file.rows[3][1]
    /\ file.rows[1][1] # "" /\ file.rows[2][1] # ""
    /\ file.rows[1][1] # file.rows[2][1]
    /\ Len(result.keywords) = 2

\* C2: the record kept for a keyword is built from the first row carrying
\* that keyword, and the records are in order of first occurrence
C2_FirstOccurrenceWins ==
    (parser = "flexible" /\ result.kind = "ok") =>
        LET data == PapaParse(file)
            IsKw(h) == ToLowerCase(h) \in {"keyword", "term", "search term", "query"}
            kh == file.header[CHOOSE c \in DOMAIN file.header :
                                 /\ IsKw(file.header[c])
                                 /\ \A d \in 1..(c - 1) : ~IsKw(file.header[d])]
            Kw(j) == data[j].get[kh]
            First(k) == CHOOSE j \in DOMAIN data :
                            Kw(j) = k /\ \A m \in 1..(j - 1) : Kw(m) # k
            recs == result.keywords
            K(i) == recs[i]["keyword"].s
        IN  /\ \A j \in DOMAIN data :
                  Kw(j) # "" => \E i \in DOMAIN recs : K(i) = Kw(j)
            /\ \A i \in DOMAIN recs : \E j \in DOMAIN data : Kw(j) = K(i)
            /\ \A i \in DOMAIN recs : recs[i] = KeywordDataOf(data[First(K(i))], kh)
            /\ \A i, j \in DOMAIN recs : i < j => First(K(i)) < First(K(j))

\* two rows with the same keyword and different values were parsed
C2_Witness ==
    /\ parser = "flexible" /\ result.kind = "ok"
    /\ file.header = <<"Keyword", "Volume">>
    /\ \E i, j \in DOMAIN file.rows :
          /\ i < j
          /\ file.rows[i][1] = file.rows[j][1] /\ file.rows[i][1] # ""
          /\ file.rows[i][2] # "" /\ file.rows[j][2] # ""
          /\ file.rows[i][2] # file.rows[j][2]

\* C3 as stated: a numeric cell that holds no number after removing ',',
\* '%' and '$' leaves its field absent on the record, and the parse succeeds
C3_MalformedNumericAbsent ==
    (/\ parser = "flexible"
     /\ PapaParse(file) # <<>>
     /\ \E c \in DOMAIN file.header :
           ToLowerCase(file.header[c]) \in {"keyword", "term", "search term", "query"})
    =>
    /\ result.kind = "ok"
    /\ LET data == PapaParse(file)
           recs == result.keywords
           IsKw(h) == ToLowerCase(h) \in {"keyword", "term", "search term", "query"}
           kh == file.header[CHOOSE c \in DOMAIN file.header :
                                /\ IsKw(file.header[c])
                                /\ \A d \in 1..(c - 1) : ~IsKw(file.header[d])]
           Kept(j) == /\ data[j].get[kh] # ""
                      /\ \A m \in 1..(j - 1) : data[m].get[kh] # data[j].get[kh]
       IN  \A j \in DOMAIN data, c \in DOMAIN file.header :
              LET h == file.header[c]
                  cell == data[j].get[h]
              IN  (/\ Kept(j)
                   /\ StandardField(h) \in Range(numericFields)
                   /\ cell # ""
                   /\ parseFloat(RemoveChars(cell, {",", "%", "$"})).nan)
                  => \A i \in DOMAIN recs :
                        recs[i]["keyword"].s = data[j].get[kh]
                            => StandardField(h) \notin DOMAIN recs[i]

\* C3 amended: such a cell, when not empty, is stored as the number 0 (the
\* field is present), unless a later column of the row maps to the same
\* field; the parse succeeds
C3_MalformedNumericIsZero ==
    (/\ parser = "flexible"
     /\ PapaParse(file) # <<>>
     /\ \E c \in DOMAIN file.header :
           ToLowerCase(file.header[c]) \in {"keyword", "term", "search term", "query"})
    =>
    /\ result.kind = "ok"
    /\ LET data == PapaParse(file)
           recs == result.keywords
           IsKw(h) == ToLowerCase(h) \in {"keyword", "term", "search term", "query"}
           kh == file.header[CHOOSE c \in DOMAIN file.header :
                                /\ IsKw(file.header[c])
                                /\ \A d \in 1..(c - 1) : ~IsKw(file.header[d])]
           Kept(j) == /\ data[j].get[kh] # ""
                      /\ \A m \in 1..(j - 1) : data[m].get[kh] # data[j].get[kh]
       IN  \A j \in DOMAIN data, c \in DOMAIN file.header :
              LET h == file.header[c]
                  cell == data[j].get[h]
              IN  (/\ Kept(j)
                   /\ StandardField(h) \in Range(numericFields)
                   /\ \A d \in (c + 1)..Len(file.header) :
                         StandardField(file.header[d]) # StandardField(h)
                   /\ cell # ""
                   /\ parseFloat(RemoveChars(cell, {",", "%", "$"})).nan)
                  => \E i \in DOMAIN recs :
                        /\ recs[i]["keyword"].s = data[j].get[kh]
                        /\ StandardField(h) \in DOMAIN recs[i]
                        /\ recs[i][StandardField(h)] = Num(0)

\* a kept row whose Volume cell is the text n/a
C3_Witness ==
    /\ parser = "flexible" /\ result.kind = "ok"
    /\ file.header = <<"Keyword", "Volume">>
    /\ Len(file.rows) >= 1
    /\ file.rows[1] = <<"yoga", "n/a">>
    /\ Len(result.keywords) >= 1
    /\ "volume" \in DOMAIN result.keywords[1]

\* C5 as stated: when the strict parser reaches the data rows, an invalid
\* row is recorded and skipped, the records of the valid rows are returned,
\* and the parse fails only when every data row is invalid
C5_InvalidRowsSkipped ==
    (/\ parser = "strict"
     /\ \/ result.kind = "ok"
        \/ (result.kind = "error" /\ result.message \in {RowIssuesMsg, NoValidRowsMsg}))
    =>
        LET lines == NonEmptyLinesOf(file.text)
            separator == DetectSeparator(lines[1])
            headers == HeadersOf(lines[1], separator)
            Valid(line) == RowError(headers, line, separator, 0) = <<>>
            validLines == FilterSeq(SubSeq(lines, 2, Len(lines)), Valid)
        IN  IF Len(validLines) > 0
            THEN /\ result.kind = "ok"
                 /\ result.records =
                        [i \in DOMAIN validLines |->
                            RowRecord(headers, validLines[i], separator)]
            ELSE result.kind = "error"

\* C6 as stated: a header with no valid keyword record beneath it fails with
\* an error other than the empty-input error, and no parse returns zero
\* keyword records
C6_NoDataRowsError ==
    /\ (parser = "flexible" /\ result.kind = "ok") => Len(result.keywords) > 0
    /\ (/\ parser = "flexible"
        /\ \E c \in DOMAIN file.header :
              /\ ToLowerCase(file.header[c]) \in {"keyword", "term", "search term", "query"}
              /\ \A d \in 1..(c - 1) :
                    ToLowerCase(file.header[d]) \notin {"keyword", "term", "search term", "query"}
              /\ \A j \in DOMAIN file.rows : file.rows[j][c] = "")
        => (result.kind = "error" /\ result.message # EmptyFileMsg)
    /\ (parser = "strict" /\ result.kind = "ok") => Len(result.records) > 0
    /\ (/\ parser = "strict"
        /\ EndsWith(ToLowerCase(file.name), ".csv")
        /\ Len(NonEmptyLinesOf(file.text)) = 1)
        => (result.kind = "error" /\ result.message # StrictEmptyMsg)

\* C6 amended: the strict parser tells a header-only file from an empty one
\* and never returns zero records; the flexible parser reports a header-only
\* file as an empty file and returns a dataset with zero keyword records
\* when every data row has an empty keyword
C6_NoDataRowsByParser ==
    /\ (parser = "strict" /\ result.kind = "ok") => Len(result.records) > 0
    /\ (parser = "strict" /\ EndsWith(ToLowerCase(file.name), ".csv")) =>
          /\ Len(NonEmptyLinesOf(file.text)) = 0 => result = Failure(StrictEmptyMsg)
          /\ Len(NonEmptyLinesOf(file.text)) = 1 => result = Failure(StrictNoRowsMsg)
          /\ StrictNoRowsMsg # StrictEmptyMsg
    /\ (parser = "flexible" /\ PapaParse(file) = <<>>) => result = Failure(EmptyFileMsg)
    /\ (/\ parser = "flexible"
        /\ PapaParse(file) # <<>>
        /\ \E c \in DOMAIN file.header :
              /\ ToLowerCase(file.header[c]) \in {"keyword", "term", "search term", "query"}
              /\ \A d \in 1..(c - 1) :
                    ToLowerCase(file.header[d]) \notin {"keyword", "term", "search term", "query"}
              /\ \A j \in DOMAIN file.rows : file.rows[j][c] = "")
        => (result.kind = "ok" /\ result.keywords = <<>>)

\* the flexible parser returned a dataset with no keyword record, from rows
\* that all have an empty keyword
C6_Witness ==
    /\ parser = "flexible" /\ result.kind = "ok"
    /\ Len(file.rows) >= 2
    /\ result.keywords = <<>>

\* C7 as stated: a file with a header none of whose names maps to keyword
\* fails with the missing-keyword-column error; with a header that does,
\* the rows are parsed whatever other columns are absent
C7_KeywordColumnAlwaysChecked ==
    (parser = "flexible" /\ Len(file.header) > 0) =>
        IF \E c \in DOMAIN file.header :
              ToLowerCase(file.header[c]) \in {"keyword", "term", "search term", "query"}
        THEN PapaParse(file) # <<>> => result.kind = "ok"
        ELSE result = Failure(MissingKeywordMsg)

\* C7 amended: with at least one row to read the header from, the flexible
\* parser fails with the missing-keyword-column error when no header maps
\* to keyword, and succeeds whenever some header does, whatever other
\* columns are absent; with no row it fails with the empty-file error
\* whatever the header
C7_KeywordColumnRequired ==
    /\ (parser = "flexible" /\ PapaParse(file) # <<>>) =>
          IF \E c \in DOMAIN file.header :
                ToLowerCase(file.header[c]) \in {"keyword", "term", "search term", "query"}
          THEN result.kind = "ok"
          ELSE result = Failure(MissingKeywordMsg)
    /\ (parser = "flexible" /\ PapaParse(file) = <<>>) =>
          result = Failure(EmptyFileMsg)

\* a file with rows and no keyword column was rejected
C7_Witness ==
    /\ parser = "flexible"
    /\ Len(file.rows) >= 1
    /\ result = Failure(MissingKeywordMsg)

(***************************************************************************)
(* Properties of the projection engine.                                    *)
(***************************************************************************)
\* C4: for a current rank >= 1, a difficulty in 0..100 and a horizon > 0
\* the projected rank is at least 1 and at most the current rank, in
\* generateGrowthProjections and in calculateProjections with the boost
C4_ProjectedRankBounded ==
    (/\ rankOutput.by \in {"generateGrowthProjections", "calculateProjections"}
     /\ "currentRank" \in DOMAIN rankInput.keyword
     /\ rankInput.keyword["currentRank"].n >= 1
     /\ "difficulty" \in DOMAIN rankInput.keyword
     /\ rankInput.keyword["difficulty"].n \in 0..100
     /\ rankInput.months > 0)
    => /\ rankOutput.projectedRank >= 1000
       /\ rankOutput.projectedRank <= rankInput.keyword["currentRank"].n * 1000

\* the boosted projection of a rank that improves without reaching rank 1
C4_Witness ==
    /\ rankOutput.by = "calculateProjections"
    /\ "currentRank" \in DOMAIN rankInput.keyword
    /\ "difficulty" \in DOMAIN rankInput.keyword
    /\ rankInput.keyword["currentRank"].n >= 1
    /\ rankOutput.projectedRank > 1000
    /\ rankOutput.projectedRank < rankInput.keyword["currentRank"].n * 1000

(***************************************************************************)
(* Properties of the metadata candidates.                                  *)
(***************************************************************************)
\* C8: no keyword field is longer than 100 characters, neither a
\* keywordField option of generateMetadataRecommendations nor the keywords
\* string of an option of the service
C8_KeywordFieldAtMost100 ==
    /\ analysis # NoAnalysis =>
          \A i \in DOMAIN analysis.keywordField :
              Len(analysis.keywordField[i]) <= 100
    /\ (channel.kind \in {"response", "received"} /\ channel.status = 200) =>
          \A i \in DOMAIN channel.body["suggestion"] :
              Len(channel.body["suggestion"][i].keywords.s) <= 100

\* C9: every title and every subtitle offered is at most 30 characters
\* long, in generateMetadataRecommendations and in the service's options
C9_TitleAndSubtitleAtMost30 ==
    /\ analysis # NoAnalysis =>
          /\ \A i \in DOMAIN analysis.title : Len(analysis.title[i]) <= 30
          /\ \A i \in DOMAIN analysis.subtitle : Len(analysis.subtitle[i]) <= 30
    /\ (channel.kind \in {"response", "received"} /\ channel.status = 200) =>
          \A i \in DOMAIN channel.body["suggestion"] :
              /\ Len(channel.body["suggestion"][i].title.s) <= 30
              /\ Len(channel.body["suggestion"][i].subtitle.s) <= 30

\* C10: the answer to a request with a non-empty keywords array has a field
\* options, a list of {title, subtitle, keywords} in which keywords is a
\* list of strings, and that list is what the component ends up holding
C10_ResponseHasOptionsList ==
    (/\ channel.kind \in {"response", "received"}
     /\ Len(selectedKeywords) > 0)
    => /\ "options" \in DOMAIN channel.body
       /\ \A i \in DOMAIN channel.body["options"] :
             /\ DOMAIN channel.body["options"][i] = {"title", "subtitle", "keywords"}
             /\ DOMAIN channel.body["options"][i].keywords = {"list"}
       /\ channel.kind = "received" => client.options = channel.body["options"]

C15_EveryKeywordCategorized ==
    \A r \in DOMAIN runs :
        LET categories == runs[r].insights.keywordCategories
            InTheme(kw) == \E c \in DOMAIN categories \ {"other"} :
                               kw \in Range(categories[c])
        IN  \A i \in DOMAIN dataset.keywords :
                LET kw == dataset.keywords[i]
                IN  \/ InTheme(kw)
                    \/ /\ "other" \in DOMAIN categories
                       /\ kw \in Range(categories["other"])

\* C16: each filtered opportunity list is the first five of the
\* volume-descending order of the keywords meeting its predicate
C16_TopFiveByVolume ==
    \A r \in DOMAIN runs :
        LET keywords == dataset.keywords
            Volume(k) == k["volume"].n
            TopFive(list, qualifying) ==
                /\ \A i \in DOMAIN list : list[i] \in qualifying
                /\ Injective(list)
                /\ Len(list) = Min(5, Cardinality(qualifying))
                /\ \A i, j \in DOMAIN list :
                       i < j => Volume(list[i]) >= Volume(list[j])
                /\ \A k \in qualifying \ Range(list) :
                       \A i \in DOMAIN list : Volume(k) <= Volume(list[i])
        IN  /\ TopFive(runs[r].insights.lowCompetitionOpportunities,
                       {k \in Range(keywords) :
                           /\ "difficulty" \in DOMAIN k
                           /\ "volume" \in DOMAIN k
                           /\ k["difficulty"].n < 40
                           /\ k["volume"].n > 300})
            /\ TopFive(runs[r].insights.underperformingKeywords,
                       {k \in Range(keywords) :
                           /\ "volume" \in DOMAIN k
                           /\ "currentRank" \in DOMAIN k
                           /\ k["volume"].n > 300
                           /\ k["currentRank"].n > 50})

\* the aggregator ran on a dataset with more than five keywords meeting each
\* predicate, so both lists were capped
C16_Witness ==
    /\ Len(runs) >= 1
    /\ Len(runs[1].insights.lowCompetitionOpportunities) = 5
    /\ Len(runs[1].insights.underperformingKeywords) = 5
    /\ Cardinality({k \in Range(dataset.keywords) :
                       /\ "difficulty" \in DOMAIN k
                       /\ "volume" \in DOMAIN k
                       /\ k["difficulty"].n < 40
                       /\ k["volume"].n > 300}) > 5
    /\ Cardinality({k \in Range(dataset.keywords) :
                       /\ "volume" \in DOMAIN k
                       /\ "currentRank" \in DOMAIN k
                       /\ k["volume"].n > 300
                       /\ k["currentRank"].n > 50}) > 5

\* C19 as stated: for a dataset without keywords every collection returned
\* by analyzeAppData is empty
C19_EmptyDatasetEmptyCollections ==
    \A r \in DOMAIN runs :
        Len(dataset.keywords) = 0 =>
            /\ runs[r].insights.trendingKeywords = <<>>
            /\ runs[r].insights.lowCompetitionOpportunities = <<>>
            /\ runs[r].insights.highVolumeKeywords = <<>>
            /\ runs[r].insights.underperformingKeywords = <<>>
            /\ DOMAIN runs[r].insights.keywordCategories = {}
            /\ runs[r].recommendations.title = <<>>
            /\ runs[r].recommendations.subtitle = <<>>
            /\ runs[r].recommendations.keywordField = <<>>

(***************************************************************************)
(* Properties of the projection defaults.                                  *)
(***************************************************************************)
\* C17 as stated: the projection uses the difficulty of the record as given
\* whenever the record has one, the value 0 included, and the default 50
\* exactly when the record has none
C17_DefaultsOnlyWhenAbsent ==
    rankOutput.by # "none" =>
        LET keyword == rankInput.keyword
            months == rankInput.months
            currentRank == OrDefault(keyword, "currentRank", 100)
            difficulty == IF "difficulty" \in DOMAIN keyword
                          THEN keyword["difficulty"].n ELSE 50
        IN  rankOutput.projectedRank =
                ProjectedRank(currentRank,
                              IF rankOutput.by = "generateGrowthProjections"
                              THEN estimateRankImprovement(currentRank, difficulty, months)
                              ELSE estimateRankImprovementBoosted(currentRank, difficulty,
                                                                  months))

(***************************************************************************)
(* Properties of the Dashboard.                                            *)
(***************************************************************************)
\* C14 as stated: when an upload succeeds, after Upload New Data as well as
\* the first time, the Dashboard holds no projection of an earlier dataset:
\* projectionsCalculated is false and dynamicProjections is empty
C14_NothingLeftOfPreviousDataset ==
    [][(appDataState = NoDataset /\ appDataState' # NoDataset) =>
          (projectionsCalculated' = FALSE /\ dynamicProjections' = NoProjections)]_vars

(***************************************************************************)
(* Properties of the prediction functions.                                 *)
(***************************************************************************)
\* C12: two runs of generatePredictions (with the same target ranks), of
\* generateRecommendations, or of the KeywordAnalysis effect on the same
\* keyword records return the same predictions, recommendations and ranks
C12_SameOutputEveryRun ==
    \A i, j \in DOMAIN predictRuns :
        predictRuns[i].by = predictRuns[j].by =>
            /\ (/\ predictRuns[i].by = "generatePredictions"
                /\ predictRuns[i].targetRanks = predictRuns[j].targetRanks)
               => predictRuns[i].predictions = predictRuns[j].predictions
            /\ predictRuns[i].by = "generateRecommendations" =>
                   predictRuns[i].recommendations = predictRuns[j].recommendations
            /\ predictRuns[i].by = "useEffect" =>
                   /\ predictRuns[i].keywordRanks = predictRuns[j].keywordRanks
                   /\ predictRuns[i].predictions = predictRuns[j].predictions
                   /\ predictRuns[i].recommendations = predictRuns[j].recommendations

\* C18: every rank and every install figure that predictRankingGrowth
\* returned to the KeywordAnalysis effect is a number, whichever optional
\* fields the records lack
C18_NoNaNForMissingFields ==
    \A i \in DOMAIN predictRuns :
        predictRuns[i].by = "useEffect" =>
            \A k \in DOMAIN predictRuns[i].predictions, t \in 1..4 :
                /\ ~predictRuns[i].predictions[k].predictedRanks[t].nan
                /\ ~predictRuns[i].predictions[k].predictedInstallImpact[t].nan

C21_ConversionTable ==
    rankOutput.by # "none" =>
        LET rank == rankOutput.projectedRank
            rate == CASE rank <= 1000 -> 120
                      [] rank > 1000 /\ rank <= 3000 -> 80
                      [] rank > 3000 /\ rank <= 5000 -> 50
                      [] rank > 5000 /\ rank <= 10000 -> 30
                      [] rank > 10000 /\ rank <= 20000 -> 10
                      [] rank > 20000 /\ rank <= 50000 -> 5
                      [] rank > 50000 -> 1
        IN  /\ rankOutput.conversionRate = rate
            /\ estimateConversionRate(rank) = rate
            /\ estimateConversionRateDashboard(rank) = rate
            /\ estimateConversionRateChart(rank) = rate
            /\ estimateConversionRateImpact(rank) = rate

\* a projection that ended exactly on rank 1 and was given the rate 0.12
C21_Witness ==
    /\ rankOutput.by = "generateGrowthProjections"
    /\ "currentRank" \in DOMAIN rankInput.keyword
    /\ rankInput.keyword["currentRank"].n > 1
    /\ rankOutput.projectedRank = 1000
    /\ rankOutput.conversionRate = 120

(***************************************************************************)
(* Properties of the numeric cells.                                        *)
(***************************************************************************)
\* C22: in every record the strict parser returns, difficulty, chance and
\* relevancyScore are integers within 0..100, and a numeric field is 0 when
\* its cell is not blank and does not start like a number
C22_StrictNumbersClamped ==
    (parser = "strict" /\ result.kind = "ok") =>
        LET lines == NonEmptyLinesOf(file.text)
            separator == DetectSeparator(lines[1])
            column == [volume |-> 12, difficulty |-> 13, maximumReach |-> 14,
                       kei |-> 18, chance |-> 19, relevancyScore |-> 20]
            NotANumber(cell) ==
                cell # "" /\ CharAt(cell, 1) \notin Digits \cup {"-", "+", " ", "\t"}
        IN  \A i \in DOMAIN result.records :
                /\ \A field \in {"difficulty", "chance", "relevancyScore"} :
                       /\ field \in DOMAIN result.records[i]
                       /\ result.records[i][field].n \in 0..100
                /\ \A l \in 2..Len(lines), field \in DOMAIN column :
                       LET cells == Split(lines[l], separator)
                       IN  (/\ Len(cells) = 20
                            /\ cells[9] = result.records[i]["keyword"].s
                            /\ NotANumber(cells[column[field]]))
                           => (/\ field \in DOMAIN result.records[i]
                               /\ result.records[i][field].n = 0)

\* a record read from cells 150, -5 and n/a: clamped to 100, raised to 0, and 0
C22_Witness ==
    /\ parser = "strict" /\ result.kind = "ok"
    /\ \E i \in DOMAIN result.records :
          /\ result.records[i]["keyword"].s = "yoga"
          /\ result.records[i]["difficulty"].n = 100
          /\ result.records[i]["chance"].n = 0
          /\ result.records[i]["relevancyScore"].n = 0

\* C23: in the flexible parser a cell that is empty or holds only white
\* space leaves its field absent on the record of its row, when no other
\* column of the file maps to the same field
C23_BlankCellLeavesFieldAbsent ==
    (parser = "flexible" /\ result.kind = "ok") =>
        LET data == PapaParse(file)
            recs == result.keywords
            IsKw(h) == ToLowerCase(h) \in {"keyword", "term", "search term", "query"}
            kh == file.header[CHOOSE c \in DOMAIN file.header :
                                 /\ IsKw(file.header[c])
                                 /\ \A d \in 1..(c - 1) : ~IsKw(file.header[d])]
            Kept(j) == /\ data[j].get[kh] # ""
                       /\ \A m \in 1..(j - 1) : data[m].get[kh] # data[j].get[kh]
        IN  \A j \in DOMAIN data, c \in DOMAIN file.header :
               LET h == file.header[c]
               IN  (/\ Kept(j)
                    /\ StandardField(h) # "keyword"
                    /\ \A d \in DOMAIN file.header :
                          d # c => StandardField(file.header[d]) # StandardField(h)
                    /\ Trim(data[j].get[h]) = "")
                   => \A i \in DOMAIN recs :
                         recs[i]["keyword"].s = data[j].get[kh]
                             => StandardField(h) \notin DOMAIN recs[i]

\* C24: on a successful flexible parse, missingFields holds exactly the
\* canonical fields that no header of the file maps to, and availableFields
\* holds exactly the canonical fields that some header maps to
C24_MissingAndAvailableFields ==
    (parser = "flexible" /\ result.kind = "ok") =>
        LET canonical == {fieldMap[k] : k \in fieldMapKeys}
            mapped == {f \in canonical :
                          \E c \in DOMAIN file.header :
                              /\ ToLowerCase(file.header[c]) \in fieldMapKeys
                              /\ fieldMap[ToLowerCase(file.header[c])] = f}
        IN  /\ Range(result.missingFields) = canonical \ mapped
            /\ Range(result.availableFields) = mapped

\* C25: a .csv file whose header is the documented column list, with or
\* without the Current Rank column, and whose data lines are all valid under
\* that header, is accepted by the strict parser: one record per data line
C25_DocumentedHeaderAccepted ==
    (/\ parser = "strict"
     /\ EndsWith(ToLowerCase(file.name), ".csv")
     /\ Len(NonEmptyLinesOf(file.text)) >= 2
     /\ LET lines == NonEmptyLinesOf(file.text)
            separator == DetectSeparator(lines[1])
            headers == Split(lines[1], separator)
        IN  /\ headers \in {EXPECTED_HEADERS, Append(EXPECTED_HEADERS, "Current Rank")}
            /\ \A l \in 2..Len(lines) :
                  /\ Len(Split(lines[l], separator)) = Len(headers)
                  /\ \A c \in {1, 2, 9} : Trim(Split(lines[l], separator)[c]) # "")
    => /\ result.kind = "ok"
       /\ Len(result.records) = Len(NonEmptyLinesOf(file.text)) - 1

(***************************************************************************)
(* Properties of the keyword selection.                                    *)
(***************************************************************************)
\* C26: neither the selection of the keyword table nor the keyword list
\* sent to the metadata service holds the same keyword twice
C26_SelectionHasNoDuplicates ==
    /\ \A i, j \in DOMAIN selectedKeywords :
           selectedKeywords[i] = selectedKeywords[j] => i = j
    /\ channel.kind = "request" =>
           \A i, j \in DOMAIN channel.body["keywords"] :
               channel.body["keywords"][i] = channel.body["keywords"][j] => i = j

(***************************************************************************)
(* Properties of the projection panel.                                     *)
(***************************************************************************)
\* C27: when the projection panel is shown, the figure on the card labelled
\* N Month Installs is the download projection calculated for the timeframe
\* of N months
C27_CardShowsItsHorizon ==
    (projectionsCalculated /\ appDataState # NoDataset) =>
        \A c \in DOMAIN InstallCards(dynamicProjections) :
            \E t \in DOMAIN timeframes :
                /\ timeframes[t] = InstallCards(dynamicProjections)[c].months
                /\ dynamicProjections.downloads[t] =
                       InstallCards(dynamicProjections)[c].installs

(***************************************************************************)
(* Properties of the FileUpload component.                                 *)
(***************************************************************************)
\* the last file handed to processFile whose parse was started
LastParsedFile ==
    CHOOSE i \in DOMAIN chosenFiles :
        /\ (chosenFiles[i].type = "text/csv" \/ EndsWithCsv(chosenFiles[i].name))
        /\ \A j \in DOMAIN chosenFiles :
              (chosenFiles[j].type = "text/csv" \/ EndsWithCsv(chosenFiles[j].name)) => j <= i

\* C28: once no parse is pending, the dataset last handed to onDataLoaded is
\* the one parsed from the most recently chosen file, when that file parsed,
\* in whatever order the parses completed
C28_LastDeliveredIsLatestFile ==
    (/\ inFlight = {}
     /\ loadedData # <<>>
     /\ \E i \in DOMAIN loadedData : loadedData[i].from = LastParsedFile)
        => loadedData[Len(loadedData)].from = LastParsedFile

\* C29: isLoading is true whenever at least one parse is still pending
C29_LoadingWhilePending ==
    inFlight # {} => isLoadingState = TRUE

(***************************************************************************)
(* Properties of the KeywordAnalysis effect.                               *)
(***************************************************************************)
\* the predictions the effect computes for the keywordData rendered now
PredictionsOfCurrentData ==
    IF Len(keywordRecords) > 0
    THEN EffectPredictions(keywordRecords, keywordRanksState)
    ELSE <<>>

\* C30: once no timer is pending, predictions are those of the keywordData
\* rendered now: no superseded timer wrote them, and none of an earlier
\* dataset remain when keywordData is empty
C30_PredictionsFollowKeywordData ==
    pendingTimer = NoTimer => predictionsState = PredictionsOfCurrentData

====
